---------------------------- MODULE Spec2Model ----------------------------
(***************************************************************************)
(* Trade-craft: the chart command schema (zod), the chat-completion        *)
(* validation loop, and the ChartProvider execution engine (reducer,       *)
(* loadCandles, executeAction, executeActions) with the UI handlers that   *)
(* drive it.                                                                *)
(***************************************************************************)
EXTENDS Integers, Sequences, FiniteSets, TLC

(***************************************************************************)
(* Bounds of the model.                                                    *)
(***************************************************************************)
\* longest command batch a lesson option or a chat reply carries
MaxLen == 2
\* batches (lesson clicks and chat replies) started in one behaviour
MaxBatches == 2
\* chart-panel control events in one behaviour
MaxPanel == 1
\* the user acts only while at most this many candle fetches are in flight
MaxPending == 1
\* longest raw action array of one tool call
MaxRaw == 3
\* longest series of closing prices an indicator is computed from
MaxData == 4
\* the closing prices are 1..MaxPrice
MaxPrice == 3
\* the periods are 1..MaxPeriod
MaxPeriod == 3
\* longest pair of series handed to a crossover detector
MaxSamples == 3

(***************************************************************************)
(* JSON values as JSON.parse produces them: every value carries its        *)
(* JavaScript type.  An object is a function from its keys to values, an   *)
(* absent key is a key outside its domain.                                 *)
(***************************************************************************)
JStr(s) == [t |-> "string", s |-> s]
JNum(n) == [t |-> "number", n |-> n]
\* a number that is not finite (1e999 parses to Infinity)
JNonFinite == [t |-> "nonfinite"]
JNull == [t |-> "null"]
JBool(b) == [t |-> "boolean", b |-> b]
JObj(o) == [t |-> "object", o |-> o]
JArr(a) == [t |-> "array", a |-> a]

\* the object o with key k set to v / with key k removed
With(o, k, v) == [x \in (DOMAIN o) \cup {k} |-> IF x = k THEN v ELSE o[x]]
Without(o, k) == [x \in (DOMAIN o) \ {k} |-> o[x]]

(***************************************************************************)
(* zod schema descriptors (src/lib/schema/chartActions.ts).                *)
(***************************************************************************)
ZString == [kind |-> "string"]
ZNumber == [kind |-> "number"]
ZLiteral(s) == [kind |-> "literal", value |-> s]
ZEnum(S) == [kind |-> "enum", values |-> S]
ZObject(shape) == [kind |-> "object", shape |-> shape]
ZArray(e) == [kind |-> "array", element |-> e]
ZRecord(e) == [kind |-> "record", valueType |-> e]
ZOptional(e) == [kind |-> "optional", inner |-> e]

TimeframeSchema == ZEnum({"1h", "4h", "1d"})
IndicatorTypeSchema == ZEnum({"MACD", "RSI", "EMA"})
PaneTypeSchema == ZEnum({"price", "indicator"})

SetSymbolActionSchema ==
    ZObject([type |-> ZLiteral("SET_SYMBOL"), symbol |-> ZString])

SetTimeframeActionSchema ==
    ZObject([type |-> ZLiteral("SET_TIMEFRAME"), timeframe |-> TimeframeSchema])

LoadCandlesActionSchema ==
    ZObject([type |-> ZLiteral("LOAD_CANDLES"), symbol |-> ZString,
             timeframe |-> ZString,
             from |-> ZOptional(ZNumber), to |-> ZOptional(ZNumber)])

AddIndicatorActionSchema ==
    ZObject([type |-> ZLiteral("ADD_INDICATOR"), indicator |-> IndicatorTypeSchema,
             params |-> ZOptional(ZRecord(ZNumber))])

UpdateIndicatorParamsActionSchema ==
    ZObject([type |-> ZLiteral("UPDATE_INDICATOR_PARAMS"),
             indicator |-> IndicatorTypeSchema, params |-> ZRecord(ZNumber)])

HighlightPointSchema ==
    ZObject([time |-> ZNumber, price |-> ZOptional(ZNumber),
             pane |-> ZOptional(PaneTypeSchema), label |-> ZOptional(ZString)])

HighlightPointsActionSchema ==
    ZObject([type |-> ZLiteral("HIGHLIGHT_POINTS"),
             points |-> ZArray(HighlightPointSchema)])

HighlightRegionActionSchema ==
    ZObject([type |-> ZLiteral("HIGHLIGHT_REGION"),
             region |-> ZObject([fromTime |-> ZNumber, toTime |-> ZNumber,
                                 pane |-> ZOptional(PaneTypeSchema),
                                 label |-> ZOptional(ZString)])])

AddAnnotationActionSchema ==
    ZObject([type |-> ZLiteral("ADD_ANNOTATION"),
             annotation |-> ZObject([time |-> ZNumber, price |-> ZOptional(ZNumber),
                                     text |-> ZString,
                                     pane |-> ZOptional(PaneTypeSchema)])])

\* FOCUS_RANGE with toTime: z.number().optional()
FocusRangeActionSchemaOpenEnded ==
    ZObject([type |-> ZLiteral("FOCUS_RANGE"),
             range |-> ZObject([fromTime |-> ZNumber, toTime |-> ZOptional(ZNumber)])])

FocusRangeActionSchema ==
    ZObject([type |-> ZLiteral("FOCUS_RANGE"),
             range |-> ZObject([fromTime |-> ZNumber, toTime |-> ZNumber])])

ClearHighlightsActionSchema == ZObject([type |-> ZLiteral("CLEAR_HIGHLIGHTS")])

ClearIndicatorsActionSchema == ZObject([type |-> ZLiteral("CLEAR_INDICATORS")])

\* the union with a reducer action listed among the commands
ChartActionSchemaOptionsWithReducerAction ==
    << SetSymbolActionSchema, SetTimeframeActionSchema, LoadCandlesActionSchema,
       AddIndicatorActionSchema, UpdateIndicatorParamsActionSchema,
       HighlightPointsActionSchema, HighlightRegionActionSchema,
       AddAnnotationActionSchema, FocusRangeActionSchema,
       ClearHighlightsActionSchema, ClearIndicatorsActionSchema,
       ZObject([type |-> ZLiteral("REMOVE_INDICATOR"),
                indicatorName |-> IndicatorTypeSchema]) >>

\* the options of z.discriminatedUnion("type", [...]), in their listed order
ChartActionSchemaOptions ==
    << SetSymbolActionSchema, SetTimeframeActionSchema, LoadCandlesActionSchema,
       AddIndicatorActionSchema, UpdateIndicatorParamsActionSchema,
       HighlightPointsActionSchema, HighlightRegionActionSchema,
       AddAnnotationActionSchema, FocusRangeActionSchema,
       ClearHighlightsActionSchema, ClearIndicatorsActionSchema >>

\* the 11 command tags
ActionTags ==
    { ChartActionSchemaOptions[i].shape.type.value :
          i \in DOMAIN ChartActionSchemaOptions }

(***************************************************************************)
(* zod's parse: Accepts says whether the value conforms, Output is the     *)
(* value parse returns (typed, with the keys outside the shape stripped).  *)
(***************************************************************************)
\* z.number(): a JavaScript number that is finite
IsFiniteNumber(v) == v.t = "number"

RECURSIVE Accepts(_, _)
Accepts(sch, v) ==
    CASE sch.kind = "string" -> v.t = "string"
      [] sch.kind = "number" -> IsFiniteNumber(v)
      [] sch.kind = "literal" -> v.t = "string" /\ v.s = sch.value
      [] sch.kind = "enum" -> v.t = "string" /\ v.s \in sch.values
      [] sch.kind = "optional" -> Accepts(sch.inner, v)
      [] sch.kind = "array" ->
            v.t = "array" /\ \A i \in DOMAIN v.a : Accepts(sch.element, v.a[i])
      [] sch.kind = "record" ->
            v.t = "object" /\ \A k \in DOMAIN v.o : Accepts(sch.valueType, v.o[k])
      [] sch.kind = "object" ->
            /\ v.t = "object"
            /\ \A k \in DOMAIN sch.shape :
                  IF k \in DOMAIN v.o
                  THEN Accepts(sch.shape[k], v.o[k])
                  ELSE sch.shape[k].kind = "optional"

\* parse with z.object(...).passthrough(): the keys outside the shape are kept
RECURSIVE OutputPassthrough(_, _)
OutputPassthrough(sch, v) ==
    CASE sch.kind \in {"string", "literal", "enum"} -> v.s
      [] sch.kind = "number" -> v.n
      [] sch.kind = "optional" -> OutputPassthrough(sch.inner, v)
      [] sch.kind = "array" ->
            [i \in DOMAIN v.a |-> OutputPassthrough(sch.element, v.a[i])]
      [] sch.kind = "record" ->
            [k \in DOMAIN v.o |-> OutputPassthrough(sch.valueType, v.o[k])]
      [] sch.kind = "object" ->
            [k \in DOMAIN v.o |->
                 IF k \in DOMAIN sch.shape
                 THEN OutputPassthrough(sch.shape[k], v.o[k])
                 ELSE v.o[k]]

RECURSIVE Output(_, _)
Output(sch, v) ==
    CASE sch.kind \in {"string", "literal", "enum"} -> v.s
      [] sch.kind = "number" -> v.n
      [] sch.kind = "optional" -> Output(sch.inner, v)
      [] sch.kind = "array" -> [i \in DOMAIN v.a |-> Output(sch.element, v.a[i])]
      [] sch.kind = "record" -> [k \in DOMAIN v.o |-> Output(sch.valueType, v.o[k])]
      [] sch.kind = "object" ->
            [k \in (DOMAIN sch.shape) \cap (DOMAIN v.o) |->
                 Output(sch.shape[k], v.o[k])]

\* the option of the union a payload's discriminator selects (0: none)
OptionFor(v) ==
    IF v.t = "object" /\ "type" \in DOMAIN v.o /\ v.o["type"].t = "string"
    THEN LET hit == { i \in DOMAIN ChartActionSchemaOptions :
                        ChartActionSchemaOptions[i].shape.type.value = v.o["type"].s }
         IN IF hit = {} THEN 0 ELSE CHOOSE i \in hit : TRUE
    ELSE 0

\* ChartActionSchema.parse(v) returns (TRUE) or throws (FALSE)
ChartActionSchemaAccepts(v) ==
    OptionFor(v) # 0 /\ Accepts(ChartActionSchemaOptions[OptionFor(v)], v)

\* what ChartActionSchema.parse(v) returns for an accepted payload
ChartActionSchemaParse(v) == Output(ChartActionSchemaOptions[OptionFor(v)], v)


(***************************************************************************)
(* The chart state and its reducer (src/context/ChartContext.tsx).         *)
(***************************************************************************)
\* the candle list a successful fetch of (symbol, timeframe) delivers: the
\* route maps a timeframe outside its table to the "1d" interval and an empty
\* symbol to "BTCUSDT"
timeframeToInterval(timeframe) ==
    IF timeframe \in {"1h", "4h", "1d"} THEN timeframe ELSE "1d"

CandlesOf(symbol, timeframe) ==
    [symbol |-> IF symbol = "" THEN "BTCUSDT" ELSE symbol,
     interval |-> timeframeToInterval(timeframe)]

\* candles: [] before the first successful load
NoCandles == [symbol |-> "", interval |-> ""]

\* visibleFrom / visibleTo: null
Null == -1

initialState ==
    [symbol |-> "BTCUSDT", timeframe |-> "1d", candles |-> NoCandles,
     indicators |-> <<>>, visibleFrom |-> Null, visibleTo |-> Null,
     highlights |-> <<>>, annotations |-> <<>>, isLoading |-> FALSE]

\* state.indicators.some((i) => i.name === name)
HasIndicator(indicators, name) ==
    \E k \in DOMAIN indicators : indicators[k].name = name

\* case "ADD_INDICATOR" as a plain append
ReduceAddIndicatorAppend(state, action) ==
    [state EXCEPT !.indicators = Append(state.indicators, action.indicator)]

\* case "ADD_INDICATOR" that keeps the config already there
ReduceAddIndicatorKeepFirst(state, action) ==
    IF HasIndicator(state.indicators, action.indicator.name)
    THEN state
    ELSE [state EXCEPT !.indicators = Append(state.indicators, action.indicator)]

\* case "ADD_INDICATOR" that also raises isLoading
ReduceAddIndicatorLoading(state, action) ==
    [state EXCEPT !.indicators = Append(state.indicators, action.indicator),
                  !.isLoading = TRUE]

\* case "ADD_INDICATOR": replace the config of that name in place, else append
ReduceAddIndicator(state, action) ==
    IF HasIndicator(state.indicators, action.indicator.name)
    THEN [state EXCEPT !.indicators =
             [k \in DOMAIN state.indicators |->
                 IF state.indicators[k].name = action.indicator.name
                 THEN action.indicator ELSE state.indicators[k]]]
    ELSE [state EXCEPT !.indicators = Append(state.indicators, action.indicator)]

\* case "UPDATE_INDICATOR_PARAMS" with params: { ...i.params, ...action.params }
ReduceUpdateIndicatorParamsMerge(state, action) ==
    [state EXCEPT !.indicators =
        [k \in DOMAIN state.indicators |->
            IF state.indicators[k].name = action.indicatorName
            THEN [state.indicators[k] EXCEPT !.params =
                     [f \in (DOMAIN @) \cup (DOMAIN action.params) |->
                         IF f \in DOMAIN action.params
                         THEN action.params[f] ELSE @[f]]]
            ELSE state.indicators[k]]]

\* case "UPDATE_INDICATOR_PARAMS": { ...i, params: action.params } on a match
ReduceUpdateIndicatorParams(state, action) ==
    [state EXCEPT !.indicators =
        [k \in DOMAIN state.indicators |->
            IF state.indicators[k].name = action.indicatorName
            THEN [state.indicators[k] EXCEPT !.params = action.params]
            ELSE state.indicators[k]]]

\* case "REMOVE_INDICATOR": filter((i) => i.name !== action.indicatorName)
ReduceRemoveIndicator(state, action) ==
    [state EXCEPT !.indicators =
        SelectSeq(state.indicators, LAMBDA c : c.name # action.indicatorName)]

\* case "CLEAR_HIGHLIGHTS" that forgets the annotations
ReduceClearHighlightsOnly(state) == [state EXCEPT !.highlights = <<>>]

\* case "CLEAR_HIGHLIGHTS": highlights: [], annotations: []
ReduceClearHighlights(state) ==
    [state EXCEPT !.highlights = <<>>, !.annotations = <<>>]

\* case "ADD_HIGHLIGHTS" that puts the new points in front
ReduceAddHighlightsInFront(state, action) ==
    [state EXCEPT !.highlights = action.points \o state.highlights]

\* case "ADD_HIGHLIGHTS": highlights: [...state.highlights, ...action.points]
ReduceAddHighlights(state, action) ==
    [state EXCEPT !.highlights = state.highlights \o action.points]

chartReducer(state, action) ==
    CASE action.type = "SET_SYMBOL" -> [state EXCEPT !.symbol = action.symbol]
      [] action.type = "SET_TIMEFRAME" -> [state EXCEPT !.timeframe = action.timeframe]
      [] action.type = "SET_CANDLES" -> [state EXCEPT !.candles = action.candles]
      [] action.type = "SET_LOADING" -> [state EXCEPT !.isLoading = action.isLoading]
      [] action.type = "ADD_INDICATOR" -> ReduceAddIndicator(state, action)
      [] action.type = "UPDATE_INDICATOR_PARAMS" ->
            ReduceUpdateIndicatorParams(state, action)
      [] action.type = "REMOVE_INDICATOR" -> ReduceRemoveIndicator(state, action)
      [] action.type = "CLEAR_INDICATORS" -> [state EXCEPT !.indicators = <<>>]
      [] action.type = "ADD_HIGHLIGHTS" -> ReduceAddHighlights(state, action)
      [] action.type = "ADD_ANNOTATION" ->
            [state EXCEPT !.annotations = Append(state.annotations, action.annotation)]
      [] action.type = "CLEAR_HIGHLIGHTS" -> ReduceClearHighlights(state)
      [] action.type = "SET_VISIBLE_RANGE" ->
            [state EXCEPT !.visibleFrom = action.from, !.visibleTo = action.to]
      [] OTHER -> state

(***************************************************************************)
(* loadCandles, executeAction, executeActions.  The provider is the pair   *)
(* m = [state, reloads]: the reducer state and the candle fetches in       *)
(* flight, in the order they were requested.  A fetch remembers the batch  *)
(* and the command awaiting it (owner 0: nobody awaits it).                *)
(***************************************************************************)
\* const targetSymbol = symbol || state.symbol (cap: the closure's state)
OrElse(given, fallback) == IF given = "" THEN fallback ELSE given

\* "" stands for an argument that is undefined
Undefined == ""

\* loadCandles up to its first await: SET_LOADING true, then the fetch
loadCandles(m, symbol, timeframe, cap, owner, cmd) ==
    [state |-> chartReducer(m.state, [type |-> "SET_LOADING", isLoading |-> TRUE]),
     reloads |-> Append(m.reloads,
                    [owner |-> owner, cmd |-> cmd,
                     symbol |-> OrElse(symbol, cap.symbol),
                     timeframe |-> OrElse(timeframe, cap.timeframe)])]

defaultParams ==
    [MACD |-> [fast |-> 12, slow |-> 26, signal |-> 9],
     RSI |-> [period |-> 14],
     EMA |-> [period |-> 20]]

\* executeAction with ADD_INDICATOR awaiting something too
SuspendsAlsoIndicators(action) ==
    action.type \in {"SET_SYMBOL", "SET_TIMEFRAME", "LOAD_CANDLES", "ADD_INDICATOR"}

\* the commands whose executeAction awaits loadCandles
Suspends(action) == action.type \in {"SET_SYMBOL", "SET_TIMEFRAME", "LOAD_CANDLES"}

\* the boundary point of a region without its pane
RegionPointNoPane(region, time, prefix) ==
    IF "label" \in DOMAIN region /\ region.label # ""
    THEN [time |-> time, label |-> prefix \o region.label]
    ELSE [time |-> time]

\* region.label ? `Start: ${label}` : undefined, and the two boundary points
RegionPoint(region, time, prefix) ==
    LET base == IF "pane" \in DOMAIN region
                THEN [time |-> time, pane |-> region.pane]
                ELSE [time |-> time]
    IN IF "label" \in DOMAIN region /\ region.label # ""
       THEN With(base, "label", prefix \o region.label)
       ELSE base

\* executeAction up to its first await (or to its end): the dispatches of one
\* command, and the fetch it starts when it is one of the three that load
executeAction(m, action, cap, owner, cmd) ==
    LET disp(a) == [m EXCEPT !.state = chartReducer(m.state, a)] IN
    CASE action.type = "SET_SYMBOL" ->
            loadCandles(disp([type |-> "SET_SYMBOL", symbol |-> action.symbol]),
                        action.symbol, Undefined, cap, owner, cmd)
      [] action.type = "SET_TIMEFRAME" ->
            loadCandles(disp([type |-> "SET_TIMEFRAME", timeframe |-> action.timeframe]),
                        Undefined, action.timeframe, cap, owner, cmd)
      [] action.type = "LOAD_CANDLES" ->
            loadCandles(m, action.symbol, action.timeframe, cap, owner, cmd)
      [] action.type = "ADD_INDICATOR" ->
            disp([type |-> "ADD_INDICATOR",
                  indicator |->
                      [name |-> action.indicator,
                       params |-> IF "params" \in DOMAIN action
                                  THEN action.params
                                  ELSE defaultParams[action.indicator],
                       visible |-> TRUE]])
      [] action.type = "UPDATE_INDICATOR_PARAMS" ->
            disp([type |-> "UPDATE_INDICATOR_PARAMS",
                  indicatorName |-> action.indicator, params |-> action.params])
      [] action.type = "HIGHLIGHT_POINTS" ->
            disp([type |-> "ADD_HIGHLIGHTS", points |-> action.points])
      [] action.type = "HIGHLIGHT_REGION" ->
            disp([type |-> "ADD_HIGHLIGHTS",
                  points |-> << RegionPoint(action.region, action.region.fromTime, "Start: "),
                                RegionPoint(action.region, action.region.toTime, "End: ") >>])
      [] action.type = "ADD_ANNOTATION" ->
            disp([type |-> "ADD_ANNOTATION", annotation |-> action.annotation])
      [] action.type = "FOCUS_RANGE" ->
            disp([type |-> "SET_VISIBLE_RANGE",
                  from |-> action.range.fromTime, to |-> action.range.toTime])
      [] action.type = "CLEAR_HIGHLIGHTS" -> disp([type |-> "CLEAR_HIGHLIGHTS"])
      [] action.type = "CLEAR_INDICATORS" -> disp([type |-> "CLEAR_INDICATORS"])
      [] OTHER -> m


\* executeActions without its await: the loop goes on while the load is in flight
executeActionsNoAwait(action) == "running"

\* executeActions: for (const action of actions) { await executeAction(action) }.
\* What the loop does once executeAction has been called on a command: it
\* waits when the command awaits a load, else it goes on at once
executeActionsAfter(action) ==
    IF Suspends(action) THEN "suspended" ELSE "running"

\* loadCandles without its catch: a failed fetch rejects the awaited promise
\* and executeActions ends there
executeActionsResumeRethrow(ok) == IF ok THEN "running" ELSE "failed"

\* what the loop does when the load it awaits settles: loadCandles catches
\* every failure of the fetch, so the await returns and the loop goes on
executeActionsResume(ok) == "running"

\* ChartPanel's useEffect(() => { loadCandles() }, [loadCandles]): loadCandles
\* is rebuilt when state.symbol or state.timeframe changed, and the effect
\* then calls it anew, with the new render's state and no arguments
loadCandlesEffect(before, m) ==
    IF m.state.symbol # before.symbol \/ m.state.timeframe # before.timeframe
    THEN loadCandles(m, Undefined, Undefined, m.state, 0, 0)
    ELSE m

\* loadCandles after its await: SET_CANDLES when the response is ok and
\* parses, nothing in the catch, SET_LOADING false in the finally
loadCandlesResolved(m, k, ok) ==
    LET r == m.reloads[k]
        s1 == IF ok
              THEN chartReducer(m.state, [type |-> "SET_CANDLES",
                                          candles |-> CandlesOf(r.symbol, r.timeframe)])
              ELSE m.state
    IN [state |-> chartReducer(s1, [type |-> "SET_LOADING", isLoading |-> FALSE]),
        reloads |-> [j \in 1..(Len(m.reloads) - 1) |->
                        IF j < k THEN m.reloads[j] ELSE m.reloads[j + 1]]]


(***************************************************************************)
(* The validated commands the model's batches are drawn from.  A session   *)
(* works with one family of commands: the three that load candles, the     *)
(* indicator commands, or the overlay commands; each family also holds a   *)
(* command of another kind, so that its batches mix loading and            *)
(* synchronous commands.                                                   *)
(***************************************************************************)
SetSymbolEth == [type |-> "SET_SYMBOL", symbol |-> "ETHUSDT"]
SetTimeframe1h == [type |-> "SET_TIMEFRAME", timeframe |-> "1h"]
LoadCandlesBnb == [type |-> "LOAD_CANDLES", symbol |-> "BNBUSDT", timeframe |-> "4h"]
AddMacd == [type |-> "ADD_INDICATOR", indicator |-> "MACD"]
AddMacdParams ==
    [type |-> "ADD_INDICATOR", indicator |-> "MACD",
     params |-> [fast |-> 5, slow |-> 10, signal |-> 3]]
AddRsi == [type |-> "ADD_INDICATOR", indicator |-> "RSI"]
UpdateMacd ==
    [type |-> "UPDATE_INDICATOR_PARAMS", indicator |-> "MACD", params |-> [fast |-> 8]]
ClearIndicators == [type |-> "CLEAR_INDICATORS"]
HighlightPoints ==
    [type |-> "HIGHLIGHT_POINTS",
     points |-> << [time |-> 100, label |-> "a"], [time |-> 200] >>]
HighlightRegionLabel ==
    [type |-> "HIGHLIGHT_REGION",
     region |-> [fromTime |-> 100, toTime |-> 200, label |-> "L"]]
HighlightRegionPane ==
    [type |-> "HIGHLIGHT_REGION",
     region |-> [fromTime |-> 100, toTime |-> 200, pane |-> "indicator"]]
AddAnnotation == [type |-> "ADD_ANNOTATION", annotation |-> [time |-> 100, text |-> "t"]]
FocusRange == [type |-> "FOCUS_RANGE", range |-> [fromTime |-> 100, toTime |-> 200]]
ClearHighlights == [type |-> "CLEAR_HIGHLIGHTS"]

Families == {"load", "indicators", "overlays"}

Commands(family) ==
    CASE family = "load" ->
            {SetSymbolEth, SetTimeframe1h, LoadCandlesBnb}
      [] family = "indicators" ->
            {AddMacd, AddMacdParams, AddRsi, UpdateMacd, ClearIndicators, SetSymbolEth}
      [] family = "overlays" ->
            {HighlightPoints, HighlightRegionLabel, HighlightRegionPane,
             AddAnnotation, FocusRange, ClearHighlights, LoadCandlesBnb}

\* the non-empty batches of at most MaxLen commands
Batches(family) == UNION { [1..n -> Commands(family)] : n \in 1..MaxLen }

\* the options of ChartPanel's two selects and its three indicator buttons
PanelSymbols == {"BTCUSDT", "ETHUSDT", "BNBUSDT"}
PanelTimeframes == {"1h", "4h", "1d"}
PanelIndicators == {"MACD", "RSI", "EMA"}

(***************************************************************************)
(* Indicator calculations (lib/indicators).  A JavaScript number is an     *)
(* exact fraction n/d in lowest terms with d > 0: the arithmetic below is   *)
(* the arithmetic of the code without the rounding of floating point.      *)
(* null is a value of its own.                                             *)
(***************************************************************************)
null == [null |-> TRUE]

Abs(x) == IF x < 0 THEN -x ELSE x

RECURSIVE GCD(_, _)
GCD(a, b) == IF b = 0 THEN a ELSE GCD(b, a % b)

\* the number n/d, d # 0
Rat(n, d) ==
    LET g == GCD(Abs(n), Abs(d))
        s == IF d < 0 THEN -1 ELSE 1
    IN [n |-> (s * n) \div g, d |-> Abs(d) \div g]

Num(i) == [n |-> i, d |-> 1]

\* x + y, x - y, x * y, x / y (y # 0), x > 0, x < 0, Math.abs(x)
Plus(x, y) == Rat(x.n * y.d + y.n * x.d, x.d * y.d)
Minus(x, y) == Rat(x.n * y.d - y.n * x.d, x.d * y.d)
Times(x, y) == Rat(x.n * y.n, x.d * y.d)
Over(x, y) == Rat(x.n * y.d, x.d * y.n)
Positive(x) == x.n > 0
Negative(x) == x.n < 0
MathAbs(x) == [n |-> Abs(x.n), d |-> x.d]

\* data.reduce((a, b) => a + b, 0)
RECURSIVE ReduceSum(_)
ReduceSum(data) ==
    IF data = <<>> THEN Num(0)
    ELSE Plus(ReduceSum(SubSeq(data, 1, Len(data) - 1)), data[Len(data)])

\* data.slice(0, end), 0 <= end
Slice(data, end) == SubSeq(data, 1, IF end < Len(data) THEN end ELSE Len(data))

\* data.map(() => null)
MapNull(data) == [i \in 1..Len(data) |-> null]

\* values.filter(v => v !== null)
RECURSIVE FilterNotNull(_)
FilterNotNull(values) ==
    IF values = <<>> THEN <<>>
    ELSE IF Head(values) = null THEN FilterNotNull(Tail(values))
    ELSE <<Head(values)>> \o FilterNotNull(Tail(values))

\* the for loop of calculateEMA from index i (0-based) on
RECURSIVE calculateEMALoop(_, _, _, _, _)
calculateEMALoop(data, period, i, ema, result) ==
    LET multiplier == Over(Num(2), Num(period + 1))
    IN IF ~(i < Len(data)) THEN result
       ELSE IF i < period - 1
       THEN calculateEMALoop(data, period, i + 1, ema, Append(result, null))
       ELSE IF i = period - 1
       THEN LET sum == ReduceSum(Slice(data, period))
                first == Over(sum, Num(period))
            IN calculateEMALoop(data, period, i + 1, first, Append(result, first))
       ELSE LET next == Plus(Times(Minus(data[i + 1], ema), multiplier), ema)
            IN calculateEMALoop(data, period, i + 1, next, Append(result, next))

\* calculateEMA without the null entries of the warm-up
calculateEMADefinedOnly(data, period) ==
    FilterNotNull(calculateEMALoop(data, period, 0, null, <<>>))

\* calculateEMA whose warm-up is one entry longer
calculateEMALateSeed(data, period) ==
    LET result == calculateEMALoop(data, period, 0, null, <<>>)
    IN [i \in 1..Len(result) |-> IF i = period THEN null ELSE result[i]]

\* calculateEMA seeded with the value at period - 1 instead of the mean
calculateEMASeededByValue(data, period) ==
    LET result == calculateEMALoop(data, period, 0, null, <<>>)
    IN [i \in 1..Len(result) |-> IF i = period THEN data[i] ELSE result[i]]

\* calculateEMA with multiplier 1: past the seed, the value itself
calculateEMAUnsmoothed(data, period) ==
    LET result == calculateEMALoop(data, period, 0, null, <<>>)
    IN [i \in 1..Len(result) |-> IF i > period THEN data[i] ELSE result[i]]

calculateEMA(data, period) == calculateEMALoop(data, period, 0, null, <<>>)

\* the signal EMA read at the index of macdLine instead of its own index
calculateMACDSignalByIndex(macdLine, signalEMA, i, signalIdx, signalLine) ==
    [k \in 1..Len(macdLine) |->
        IF macdLine[k] = null \/ k > Len(signalEMA) THEN null ELSE signalEMA[k]]

\* the loop that maps the signal EMA back onto the indices of macdLine
RECURSIVE calculateMACDSignal(_, _, _, _, _)
calculateMACDSignal(macdLine, signalEMA, i, signalIdx, signalLine) ==
    IF ~(i < Len(macdLine)) THEN signalLine
    ELSE IF macdLine[i + 1] = null
    THEN calculateMACDSignal(macdLine, signalEMA, i + 1, signalIdx,
                             Append(signalLine, null))
    ELSE calculateMACDSignal(macdLine, signalEMA, i + 1, signalIdx + 1,
                             Append(signalLine,
                                    IF signalIdx < Len(signalEMA)
                                    THEN signalEMA[signalIdx + 1] ELSE null))

\* calculateMACD whose histogram takes a missing signal value for 0
calculateMACDHistogramDuringWarmUp(data, fastPeriod, slowPeriod, signalPeriod) ==
    LET fastEMA == calculateEMA(data, fastPeriod)
        slowEMA == calculateEMA(data, slowPeriod)
        macdLine == [i \in 1..Len(fastEMA) |->
                        IF fastEMA[i] = null \/ slowEMA[i] = null THEN null
                        ELSE Minus(fastEMA[i], slowEMA[i])]
        signalEMA == calculateEMA(FilterNotNull(macdLine), signalPeriod)
        signalLine == calculateMACDSignal(macdLine, signalEMA, 0, 0, <<>>)
        histogram == [i \in 1..Len(macdLine) |->
                         IF macdLine[i] = null THEN null
                         ELSE IF signalLine[i] = null THEN macdLine[i]
                         ELSE Minus(macdLine[i], signalLine[i])]
    IN [macdLine |-> macdLine, signalLine |-> signalLine, histogram |-> histogram]

calculateMACD(data, fastPeriod, slowPeriod, signalPeriod) ==
    LET fastEMA == calculateEMA(data, fastPeriod)
        slowEMA == calculateEMA(data, slowPeriod)
        macdLine == [i \in 1..Len(fastEMA) |->
                        IF fastEMA[i] = null \/ slowEMA[i] = null THEN null
                        ELSE Minus(fastEMA[i], slowEMA[i])]
        validMacdValues == FilterNotNull(macdLine)
        signalEMA == calculateEMA(validMacdValues, signalPeriod)
        signalLine == calculateMACDSignal(macdLine, signalEMA, 0, 0, <<>>)
        histogram == [i \in 1..Len(macdLine) |->
                         IF macdLine[i] = null \/ signalLine[i] = null THEN null
                         ELSE Minus(macdLine[i], signalLine[i])]
    IN [macdLine |-> macdLine, signalLine |-> signalLine, histogram |-> histogram]

\* the RSI with a neutral 50 where there is no loss to divide by
RSIValueNeutralWithoutLoss(avgGain, avgLoss) ==
    IF avgLoss = Num(0) THEN Num(50)
    ELSE Minus(Num(100), Over(Num(100), Plus(Num(1), Over(avgGain, avgLoss))))

\* the relative strength as a percentage, without 100 - 100 / (1 + rs)
RSIValueOfRatio(avgGain, avgLoss) ==
    IF avgLoss = Num(0) THEN Num(100)
    ELSE Times(Num(100), Over(avgGain, avgLoss))

\* the RSI of an average gain and an average loss
RSIValue(avgGain, avgLoss) ==
    IF avgLoss = Num(0) THEN Num(100)
    ELSE LET rs == Over(avgGain, avgLoss)
         IN Minus(Num(100), Over(Num(100), Plus(Num(1), rs)))

\* calculateRSI's first loop: the sums of the first period changes, and one
\* null pushed for each
RECURSIVE calculateRSIInitial(_, _, _, _)
calculateRSIInitial(changes, period, i, acc) ==
    IF ~(i < period) THEN acc
    ELSE calculateRSIInitial(changes, period, i + 1,
            [avgGain |-> IF Positive(changes[i + 1])
                         THEN Plus(acc.avgGain, changes[i + 1]) ELSE acc.avgGain,
             avgLoss |-> IF Positive(changes[i + 1])
                         THEN acc.avgLoss
                         ELSE Plus(acc.avgLoss, MathAbs(changes[i + 1])),
             result |-> Append(acc.result, null)])

\* calculateRSI's second loop: the smoothed averages from index i on
RECURSIVE calculateRSISmoothed(_, _, _, _)
calculateRSISmoothed(changes, period, i, acc) ==
    IF ~(i < Len(changes)) THEN acc.result
    ELSE LET change == changes[i + 1]
             gain == IF Positive(change) THEN change ELSE Num(0)
             loss == IF Negative(change) THEN MathAbs(change) ELSE Num(0)
             avgGain == Over(Plus(Times(acc.avgGain, Num(period - 1)), gain),
                             Num(period))
             avgLoss == Over(Plus(Times(acc.avgLoss, Num(period - 1)), loss),
                             Num(period))
         IN calculateRSISmoothed(changes, period, i + 1,
                [avgGain |-> avgGain, avgLoss |-> avgLoss,
                 result |-> Append(acc.result, RSIValue(avgGain, avgLoss))])

calculateRSI(data, period) ==
    IF Len(data) < period + 1 THEN MapNull(data)
    ELSE LET changes == [i \in 1..(Len(data) - 1) |-> Minus(data[i + 1], data[i])]
             sums == calculateRSIInitial(changes, period, 0,
                        [avgGain |-> Num(0), avgLoss |-> Num(0),
                         result |-> <<null>>])
             avgGain == Over(sums.avgGain, Num(period))
             avgLoss == Over(sums.avgLoss, Num(period))
         IN calculateRSISmoothed(changes, period, period + 1,
                [avgGain |-> avgGain, avgLoss |-> avgLoss,
                 result |-> Append(sums.result, RSIValue(avgGain, avgLoss))])

\* the value of calculateRSI's variable avgLoss at each push onto result
\* (null where the push is a null)
calculateRSIAvgLoss(data, period) ==
    IF Len(data) < period + 1 THEN MapNull(data)
    ELSE LET changes == [i \in 1..(Len(data) - 1) |-> Minus(data[i + 1], data[i])]
             sums == calculateRSIInitial(changes, period, 0,
                        [avgGain |-> Num(0), avgLoss |-> Num(0),
                         result |-> <<null>>])
             seed == Over(sums.avgLoss, Num(period))
             RECURSIVE Smoothed(_, _, _)
             Smoothed(i, avgLoss, trace) ==
                 IF ~(i < Len(changes)) THEN trace
                 ELSE LET change == changes[i + 1]
                          loss == IF Negative(change) THEN MathAbs(change) ELSE Num(0)
                          smoothed == Over(Plus(Times(avgLoss, Num(period - 1)), loss),
                                           Num(period))
                      IN Smoothed(i + 1, smoothed, Append(trace, smoothed))
         IN Smoothed(period + 1, seed, Append(sums.result, seed))

\* x < y
Less(x, y) == x.n * y.d < y.n * x.d

\* the for loop of findMACDCrossovers from index i (0-based) on
RECURSIVE findMACDCrossoversLoop(_, _, _, _, _)
findMACDCrossoversLoop(macdLine, signalLine, times, i, crossovers) ==
    IF ~(i < Len(macdLine)) THEN crossovers
    ELSE LET prevMacd == macdLine[i]
             currMacd == macdLine[i + 1]
             prevSignal == signalLine[i]
             currSignal == signalLine[i + 1]
         IN IF prevMacd = null \/ currMacd = null
               \/ prevSignal = null \/ currSignal = null
            THEN findMACDCrossoversLoop(macdLine, signalLine, times, i + 1, crossovers)
            ELSE IF ~Less(prevSignal, prevMacd) /\ Less(currSignal, currMacd)
            THEN findMACDCrossoversLoop(macdLine, signalLine, times, i + 1,
                    Append(crossovers, [time |-> times[i + 1], type |-> "bullish"]))
            ELSE IF ~Less(prevMacd, prevSignal) /\ Less(currMacd, currSignal)
            THEN findMACDCrossoversLoop(macdLine, signalLine, times, i + 1,
                    Append(crossovers, [time |-> times[i + 1], type |-> "bearish"]))
            ELSE findMACDCrossoversLoop(macdLine, signalLine, times, i + 1, crossovers)

\* findMACDCrossovers that puts each new event in front of the earlier ones
findMACDCrossoversNewestFirst(macdLine, signalLine, times) ==
    LET crossovers == findMACDCrossoversLoop(macdLine, signalLine, times, 1, <<>>)
    IN [k \in 1..Len(crossovers) |-> crossovers[Len(crossovers) + 1 - k]]

\* findMACDCrossovers reading a missing sample as 0
findMACDCrossoversNullAsZero(macdLine, signalLine, times) ==
    LET Filled(series) == [i \in 1..Len(series) |->
                              IF series[i] = null THEN Num(0) ELSE series[i]]
    IN findMACDCrossoversLoop(Filled(macdLine), Filled(signalLine), times, 1, <<>>)

findMACDCrossovers(macdLine, signalLine, times) ==
    findMACDCrossoversLoop(macdLine, signalLine, times, 1, <<>>)

\* the for loop of findZeroLineCrossovers from index i (0-based) on
RECURSIVE findZeroLineCrossoversLoop(_, _, _, _)
findZeroLineCrossoversLoop(macdLine, times, i, crossovers) ==
    IF ~(i < Len(macdLine)) THEN crossovers
    ELSE LET prevMacd == macdLine[i]
             currMacd == macdLine[i + 1]
         IN IF prevMacd = null \/ currMacd = null
            THEN findZeroLineCrossoversLoop(macdLine, times, i + 1, crossovers)
            ELSE IF ~Less(Num(0), prevMacd) /\ Less(Num(0), currMacd)
            THEN findZeroLineCrossoversLoop(macdLine, times, i + 1,
                    Append(crossovers, [time |-> times[i + 1], type |-> "bullish"]))
            ELSE IF ~Less(prevMacd, Num(0)) /\ Less(currMacd, Num(0))
            THEN findZeroLineCrossoversLoop(macdLine, times, i + 1,
                    Append(crossovers, [time |-> times[i + 1], type |-> "bearish"]))
            ELSE findZeroLineCrossoversLoop(macdLine, times, i + 1, crossovers)

\* findZeroLineCrossovers whose loop starts one pair late
findZeroLineCrossoversSkipFirst(macdLine, times) ==
    findZeroLineCrossoversLoop(macdLine, times, 2, <<>>)

findZeroLineCrossovers(macdLine, times) ==
    findZeroLineCrossoversLoop(macdLine, times, 1, <<>>)

\* the detectors have not been given anything, and have not run
NoLines == [macdLine |-> <<>>, signalLine |-> <<>>, times |-> <<>>]
NoCrossovers == [by |-> "none", events |-> <<>>]

\* getChatCompletion has not returned
NoLessonOptions == [returned |-> FALSE, options |-> <<>>]

(***************************************************************************)
(* The candles route (app/api/market-data/candles/route.ts).  A request is *)
(* the record of its two parameters ("" when absent), the index of the     *)
(* endpoint the loop tries next, the endpoints contacted with what came    *)
(* of it, the last error and the answer.                                   *)
(***************************************************************************)
BINANCE_APIS ==
    << "https://api.binance.com/api/v3", "https://api1.binance.com/api/v3",
       "https://api2.binance.com/api/v3", "https://api3.binance.com/api/v3" >>

NoAnswer == [status |-> 0]

\* GET has read its parameters and has not entered the loop
Request(symbol, timeframe) ==
    [symbol |-> symbol, timeframe |-> timeframe, next |-> 1, contacted |-> <<>>,
     lastError |-> "", answer |-> NoAnswer]

\* no request has been made
NoRequest == [Request("", "") EXCEPT !.next = 0]

\* a loop turn whose fetch gives an OK response that parses: the answer
routeSuccess(r) ==
    [r EXCEPT !.contacted = Append(@, [api |-> BINANCE_APIS[r.next], outcome |-> "ok"]),
              !.answer = [status |-> 200,
                          symbol |-> OrElse(r.symbol, "BTCUSDT"),
                          timeframe |-> OrElse(r.timeframe, "1d"),
                          candles |-> CandlesOf(r.symbol, r.timeframe),
                          from |-> BINANCE_APIS[r.next]]]

\* a failing loop turn that answers 500 at once
routeFailureGivingUp(r, outcome) ==
    [r EXCEPT !.contacted = Append(@, [api |-> BINANCE_APIS[r.next], outcome |-> outcome]),
              !.lastError = outcome,
              !.answer = [status |-> 500, details |-> outcome]]

\* a loop turn with a non-OK response ("notOk") or a throw in the fetch or
\* in the parsing ("exception"): lastError and continue; after the last
\* endpoint the loop ends and GET answers 500
routeFailure(r, outcome) ==
    [r EXCEPT !.contacted = Append(@, [api |-> BINANCE_APIS[r.next], outcome |-> outcome]),
              !.lastError = outcome,
              !.next = @ + 1,
              !.answer = IF r.next = Len(BINANCE_APIS)
                         THEN [status |-> 500, details |-> outcome]
                         ELSE NoAnswer]

\* what ChartPanel has drawn from the closes: nothing yet
NoDerived == [kind |-> "none", params |-> <<>>, series |-> <<>>]

(***************************************************************************)
(* State.                                                                  *)
(***************************************************************************)
VARIABLES
    state,        \* the reducer state of ChartProvider
    reloads,      \* candle fetches in flight, in request order
    batches,      \* the executeActions calls, by number
    active,       \* the batch whose JavaScript is running now (0: none)
    mounted,      \* ChartPanel's mount effect has run
    nextBatch,    \* the number the next batch gets
    nPanel,       \* chart-panel control events so far
    family,       \* the family of commands this session works with
    raw,          \* getChatCompletion: args.actions of the tool call
    vIdx,         \* getChatCompletion: raw actions the loop has been through
    validated,    \* getChatCompletion: the actions array it builds
    warned,       \* getChatCompletion: the raw actions it skipped with a warning
    envLog,       \* the candle fetch resolutions so far: <<position, ok>>
    closes,       \* ChartPanel: the closing prices of the candles it draws
    derived,      \* ChartPanel: the indicator series it computed last
    lines,        \* the series and times handed to a crossover detector
    crossovers,   \* the detector that ran, and the events it returned
    rawOption,    \* getChatCompletion: actions of the raw lesson option of the tool call
    lessonOptions, \* getChatCompletion: the lessonOptions it returns
    route         \* the candles route: one GET request and how far it has come

engineVars == <<state, reloads, batches, active, mounted, nextBatch, nPanel,
                family>>
chatVars == <<raw, vIdx, validated, warned, envLog, rawOption, lessonOptions>>
indVars == <<closes, derived, lines, crossovers, route>>
vars == <<engineVars, chatVars, indVars>>

BatchIds == 1..MaxBatches

NoCap == [symbol |-> "", timeframe |-> ""]
NoBatch == [status |-> "none", origin |-> "", actions |-> <<>>, pc |-> 0, cap |-> NoCap]
\* a finished executeActions call keeps nothing
DoneBatch(origin) == [NoBatch EXCEPT !.status = "done", !.origin = origin]

\* what a callback created by the current render closes over
Closure == [symbol |-> state.symbol, timeframe |-> state.timeframe]

M == [state |-> state, reloads |-> reloads]

InitEngine ==
    /\ state = initialState
    /\ reloads = <<>>
    /\ batches = [b \in BatchIds |-> NoBatch]
    /\ active = 0
    /\ mounted = FALSE
    /\ nextBatch = 1
    /\ nPanel = 0
    /\ family \in Families

Init ==
    /\ InitEngine
    /\ raw = <<>>
    /\ vIdx = 0
    /\ validated = <<>>
    /\ warned = <<>>
    /\ envLog = <<>>
    /\ rawOption = JNull
    /\ lessonOptions = NoLessonOptions
    /\ closes = <<>>
    /\ derived = NoDerived
    /\ lines = NoLines
    /\ crossovers = NoCrossovers
    /\ route = NoRequest

\* a chat reply has put lesson options on the screen
OptionsShown ==
    \E b \in BatchIds :
        batches[b].origin = "chat" /\ batches[b].status \in {"running", "suspended", "done"}

\* the user can act: no JavaScript is running and the page is mounted
Idle == active = 0 /\ mounted /\ Len(reloads) <= MaxPending

\* ChatPanel's isLoading: a submitted message whose handleSubmit has not ended
ChatBusy ==
    \E b \in BatchIds :
        batches[b].origin = "chat" /\ batches[b].status \in {"pending", "running", "suspended"}

(***************************************************************************)
(* Actions.                                                                *)
(***************************************************************************)
\* ChartPanel mounts: useEffect calls loadCandles()
Mount ==
    /\ ~mounted
    /\ mounted' = TRUE
    /\ LET m == loadCandles(M, Undefined, Undefined, Closure, 0, 0)
       IN state' = m.state /\ reloads' = m.reloads
    /\ UNCHANGED <<batches, active, nextBatch, nPanel, family, chatVars, indVars>>

\* the running batch executes its next command; when the command awaits a
\* load, JavaScript yields, React renders and ChartPanel's effect runs
Step(b) ==
    /\ active = b
    /\ batches[b].pc < Len(batches[b].actions)
    /\ LET bt == batches[b]
           i == bt.pc + 1
           m1 == executeAction(M, bt.actions[i], bt.cap, b, i)
           st == executeActionsAfter(bt.actions[i])
           m2 == IF st = "running" THEN m1 ELSE loadCandlesEffect(state, m1)
       IN /\ state' = m2.state
          /\ reloads' = m2.reloads
          /\ batches' = [batches EXCEPT ![b] = [bt EXCEPT !.pc = i, !.status = st]]
          /\ active' = IF st = "running" THEN b ELSE 0
    /\ UNCHANGED <<mounted, nextBatch, nPanel, family, chatVars, indVars>>

\* the loop of the running batch is through its actions: executeActions returns
Finish(b) ==
    /\ active = b
    /\ batches[b].pc = Len(batches[b].actions)
    /\ batches' = [batches EXCEPT ![b] = DoneBatch(batches[b].origin)]
    /\ active' = 0
    /\ UNCHANGED <<state, reloads, mounted, nextBatch, nPanel, family, chatVars, indVars>>

\* a candle fetch resolves; the batch awaiting it goes on
Resolve(k, ok) ==
    /\ active = 0
    /\ k \in DOMAIN reloads
    /\ LET r == reloads[k]
           m1 == loadCandlesResolved(M, k, ok)
           waits == /\ r.owner # 0
                    /\ batches[r.owner].status = "suspended"
                    /\ batches[r.owner].pc = r.cmd
       IN /\ state' = m1.state
          /\ reloads' = m1.reloads
          /\ batches' = IF waits
                        THEN [batches EXCEPT ![r.owner].status = executeActionsResume(ok)]
                        ELSE batches
          /\ active' = IF waits /\ executeActionsResume(ok) = "running"
                       THEN r.owner ELSE 0
    /\ envLog' = IF raw = <<>> THEN envLog ELSE Append(envLog, <<k, ok>>)
    /\ UNCHANGED <<mounted, nextBatch, nPanel, family, raw, vIdx, validated, warned,
                 rawOption, lessonOptions, indVars>>

\* handleLessonOptionClick: executeActions(option.actions)
handleLessonOptionClick(actions) ==
    /\ Idle
    /\ OptionsShown
    /\ nextBatch <= MaxBatches
    /\ batches' = [batches EXCEPT ![nextBatch] =
                      [status |-> "running", origin |-> "lesson", actions |-> actions,
                       pc |-> 0, cap |-> Closure]]
    /\ active' = nextBatch
    /\ nextBatch' = nextBatch + 1
    /\ UNCHANGED <<state, reloads, mounted, nPanel, family, chatVars, indVars>>

\* handleSubmit up to its await fetch("/api/chat")
handleSubmit ==
    /\ Idle
    /\ ~ChatBusy
    /\ nextBatch <= MaxBatches
    /\ batches' = [batches EXCEPT ![nextBatch] =
                      [status |-> "pending", origin |-> "chat", actions |-> <<>>,
                       pc |-> 0, cap |-> Closure]]
    /\ nextBatch' = nextBatch + 1
    /\ UNCHANGED <<state, reloads, active, mounted, nPanel, family, chatVars, indVars>>

\* handleSubmit after the reply: executeActions(data.actions) when there are
\* any, with the executeActions of the render that submitted
ChatReply(actions) ==
    /\ active = 0
    /\ \E b \in BatchIds :
          /\ batches[b].status = "pending"
          /\ IF actions = <<>>
             THEN /\ batches' = [batches EXCEPT ![b] = DoneBatch("chat")]
                  /\ active' = 0
             ELSE /\ batches' = [batches EXCEPT ![b].status = "running",
                                                ![b].actions = actions]
                  /\ active' = b
    /\ UNCHANGED <<state, reloads, mounted, nextBatch, nPanel, family, chatVars, indVars>>

\* ChartPanel calls executeAction(action) and awaits nothing
PanelExecute(action) ==
    /\ Idle
    /\ nPanel < MaxPanel
    /\ nPanel' = nPanel + 1
    /\ LET m == loadCandlesEffect(state, executeAction(M, action, Closure, 0, 0))
       IN state' = m.state /\ reloads' = m.reloads
    /\ UNCHANGED <<batches, active, mounted, nextBatch, family, chatVars, indVars>>

\* the selects fire onChange for another option than the one shown
handleSymbolChange(symbol) ==
    /\ family = "load"
    /\ symbol # state.symbol
    /\ PanelExecute([type |-> "SET_SYMBOL", symbol |-> symbol])

handleTimeframeChange(timeframe) ==
    /\ family = "load"
    /\ timeframe # state.timeframe
    /\ PanelExecute([type |-> "SET_TIMEFRAME", timeframe |-> timeframe])

handleClearOverlays ==
    /\ family = "overlays"
    /\ PanelExecute([type |-> "CLEAR_HIGHLIGHTS"])

handleClearIndicators ==
    /\ family = "indicators"
    /\ PanelExecute([type |-> "CLEAR_INDICATORS"])

\* handleToggleIndicator: REMOVE_INDICATOR dispatched when the indicator is
\* on, executeAction({ type: "ADD_INDICATOR", indicator }) when it is off
handleToggleIndicator(indicator) ==
    /\ family = "indicators"
    /\ IF HasIndicator(state.indicators, indicator)
       THEN /\ Idle
            /\ nPanel < MaxPanel
            /\ nPanel' = nPanel + 1
            /\ state' = chartReducer(state, [type |-> "REMOVE_INDICATOR",
                                             indicatorName |-> indicator])
            /\ UNCHANGED <<reloads, batches, active, mounted, nextBatch, family,
                           chatVars, indVars>>
       ELSE PanelExecute([type |-> "ADD_INDICATOR", indicator |-> indicator])

Next ==
    \/ Mount
    \/ \E b \in BatchIds : Step(b)
    \/ \E b \in BatchIds : Finish(b)
    \/ \E k \in 1..Len(reloads), ok \in BOOLEAN : Resolve(k, ok)
    \/ \E actions \in Batches(family) : handleLessonOptionClick(actions)
    \/ handleSubmit
    \/ \E actions \in Batches(family) \cup {<<>>} : ChatReply(actions)
    \/ \E symbol \in PanelSymbols : handleSymbolChange(symbol)
    \/ \E timeframe \in PanelTimeframes : handleTimeframeChange(timeframe)
    \/ handleClearOverlays
    \/ handleClearIndicators
    \/ \E indicator \in PanelIndicators : handleToggleIndicator(indicator)

Spec == Init /\ [][Next]_vars


(***************************************************************************)
(* The chat pipeline (src/lib/llm/openaiClient.ts, ChatPanel.tsx): the     *)
(* model's tool call carries a raw action array; getChatCompletion         *)
(* validates it action by action, and handleSubmit executes what is left.  *)
(***************************************************************************)
\* raw payloads that conform, one or two per tag
RawSetSymbol == JObj([type |-> JStr("SET_SYMBOL"), symbol |-> JStr("ETHUSDT")])
RawSetTimeframe == JObj([type |-> JStr("SET_TIMEFRAME"), timeframe |-> JStr("1h")])
RawLoadCandles ==
    JObj([type |-> JStr("LOAD_CANDLES"), symbol |-> JStr("BNBUSDT"),
          timeframe |-> JStr("4h"), from |-> JNum(100)])
RawAddIndicator == JObj([type |-> JStr("ADD_INDICATOR"), indicator |-> JStr("MACD")])
RawAddIndicatorParams ==
    JObj([type |-> JStr("ADD_INDICATOR"), indicator |-> JStr("RSI"),
          params |-> JObj([period |-> JNum(5)])])
RawUpdateIndicatorParams ==
    JObj([type |-> JStr("UPDATE_INDICATOR_PARAMS"), indicator |-> JStr("MACD"),
          params |-> JObj([fast |-> JNum(8)])])
RawHighlightPoints ==
    JObj([type |-> JStr("HIGHLIGHT_POINTS"),
          points |-> JArr(<< JObj([time |-> JNum(100), pane |-> JStr("price"),
                                   label |-> JStr("a")]) >>)])
RawHighlightRegion ==
    JObj([type |-> JStr("HIGHLIGHT_REGION"),
          region |-> JObj([fromTime |-> JNum(100), toTime |-> JNum(200),
                           pane |-> JStr("indicator"), label |-> JStr("L")])])
RawAddAnnotation ==
    JObj([type |-> JStr("ADD_ANNOTATION"),
          annotation |-> JObj([time |-> JNum(100), text |-> JStr("t")])])
RawFocusRange ==
    JObj([type |-> JStr("FOCUS_RANGE"),
          range |-> JObj([fromTime |-> JNum(100), toTime |-> JNum(200)])])
RawClearHighlights == JObj([type |-> JStr("CLEAR_HIGHLIGHTS")])
RawClearIndicators == JObj([type |-> JStr("CLEAR_INDICATORS")])

\* an action of the reducer that is no command
RawRemoveIndicator ==
    JObj([type |-> JStr("REMOVE_INDICATOR"), indicatorName |-> JStr("MACD")])

RawBase ==
    { RawSetSymbol, RawSetTimeframe, RawLoadCandles, RawAddIndicator,
      RawAddIndicatorParams, RawUpdateIndicatorParams, RawHighlightPoints,
      RawHighlightRegion, RawAddAnnotation, RawFocusRange, RawClearHighlights,
      RawClearIndicators }

\* what a model can put in a field's place: another number, another string,
\* the empty string, a number that is not finite, null
OtherValues == { JNum(7), JStr("zzz"), JStr(""), JNonFinite, JNull }

\* the objects one edit away from o: a key dropped, a key's value replaced,
\* a key no schema knows added
Edits(o) ==
    { Without(o, k) : k \in DOMAIN o }
      \cup { With(o, k, x) : k \in DOMAIN o, x \in OtherValues }
      \cup { With(o, "extra", JStr("x")) }

\* the same edits one level down: inside an object field, inside the first
\* element of an array field
NestedEdits(o) ==
    UNION { IF o[k].t = "object"
            THEN { With(o, k, JObj(e)) : e \in Edits(o[k].o) }
            ELSE IF o[k].t = "array" /\ o[k].a # <<>> /\ o[k].a[1].t = "object"
            THEN { With(o, k, JArr([o[k].a EXCEPT ![1] = JObj(e)])) :
                       e \in Edits(o[k].a[1].o) }
                   \cup { With(o, k, JArr(<<>>)) }
            ELSE {} : k \in DOMAIN o }

\* every raw action of the model: the conforming ones, their edits, a tag of
\* the reducer that is no command, and values that are no objects
RawPool ==
    RawBase
      \cup { JObj(e) : e \in UNION { Edits(b.o) \cup NestedEdits(b.o) : b \in RawBase } }
      \cup { JObj(With(b.o, "type", JStr("REMOVE_INDICATOR"))) : b \in RawBase }
      \cup { RawRemoveIndicator }
      \cup { JNull, JStr("SET_SYMBOL"), JArr(<<>>) }

\* the raw actions that accompany another one in a tool call
RawCore ==
    { RawAddIndicator, JObj(Without(RawFocusRange.o, "range")) }

\* the raw action arrays of at most MaxRaw actions, one of them any raw
\* action and the others from RawCore
RawBatches(max) ==
    UNION { { [j \in 1..n |-> IF j = i THEN p ELSE c[j]] :
                  p \in RawPool, c \in [1..n -> RawCore] } :
            n \in 1..max, i \in 1..max }

\* the raw action arrays of at most MaxLen actions that all load candles
RawLoadingBatches ==
    UNION { [1..n -> {RawSetSymbol, RawSetTimeframe, RawLoadCandles}] : n \in 1..MaxLen }

\* the loop with its try around the whole array: one invalid action empties
\* the result
validateRawActionAllOrNothing(acc, rawAction) ==
    IF ChartActionSchemaAccepts(rawAction) /\ acc.warned = <<>>
    THEN [acc EXCEPT !.actions = Append(@, ChartActionSchemaParse(rawAction))]
    ELSE [actions |-> <<>>, warned |-> Append(acc.warned, rawAction)]

\* the body of getChatCompletion's loop over args.actions:
\* try { actions.push(ChartActionSchema.parse(rawAction)) }
\* catch { console.warn("Invalid action skipped:", rawAction) }
validateRawAction(acc, rawAction) ==
    IF ChartActionSchemaAccepts(rawAction)
    THEN [acc EXCEPT !.actions = Append(@, ChartActionSchemaParse(rawAction))]
    ELSE [acc EXCEPT !.warned = Append(@, rawAction)]

\* v || []: the values JavaScript takes for false
Falsy(v) ==
    \/ v.t = "null"
    \/ v.t = "string" /\ v.s = ""
    \/ v.t = "number" /\ v.n = 0
    \/ v.t = "boolean" /\ ~v.b

\* the map over a lesson option's actions with its try around the whole
\* array: one invalid action empties the option
lessonOptionActionsAllOrNothing(rawActions) ==
    IF \A i \in DOMAIN rawActions : ChartActionSchemaAccepts(rawActions[i])
    THEN [i \in DOMAIN rawActions |-> ChartActionSchemaParse(rawActions[i])]
    ELSE <<>>

\* (opt.actions || []).map(a => { try { return ChartActionSchema.parse(a) }
\* catch { return null } }).filter(Boolean), for an array
RECURSIVE lessonOptionActions(_)
lessonOptionActions(rawActions) ==
    IF rawActions = <<>> THEN <<>>
    ELSE IF ChartActionSchemaAccepts(Head(rawActions))
    THEN <<ChartActionSchemaParse(Head(rawActions))>> \o lessonOptionActions(Tail(rawActions))
    ELSE lessonOptionActions(Tail(rawActions))

\* the lessonOptions of a tool call with one option whose actions field is
\* rawActions: a value that is neither false nor an array has no map, the
\* TypeError is caught around the tool call and lessonOptions stays empty
extractLessonOptions(rawActions) ==
    IF Falsy(rawActions) THEN << [actions |-> <<>>] >>
    ELSE IF rawActions.t = "array" THEN << [actions |-> lessonOptionActions(rawActions.a)] >>
    ELSE <<>>

\* the page once ChartPanel's first load has delivered its candles
SettledState == [initialState EXCEPT !.candles = CandlesOf("BTCUSDT", "1d")]

\* the provider when the user's message is sent
SettledM == [state |-> SettledState, reloads |-> <<>>]

\* what handleSubmit's executeActions closes over
SettledCap == [symbol |-> SettledState.symbol, timeframe |-> SettledState.timeframe]

\* the message is sent from the settled page and the model has answered with
\* a tool call whose raw action array is raw
InitChat ==
    /\ state = SettledState
    /\ reloads = <<>>
    /\ batches = [b \in BatchIds |->
                     IF b = 1
                     THEN [status |-> "pending", origin |-> "chat", actions |-> <<>>,
                           pc |-> 0,
                           cap |-> SettledCap]
                     ELSE NoBatch]
    /\ active = 0
    /\ mounted = TRUE
    /\ nextBatch = 2
    /\ nPanel = 0
    /\ family = "chat"
    /\ raw \in RawBatches(MaxRaw) \cup RawLoadingBatches
    /\ vIdx = 0
    /\ validated = <<>>
    /\ warned = <<>>
    /\ envLog = <<>>
    /\ rawOption = JNull
    /\ lessonOptions = NoLessonOptions
    /\ closes = <<>>
    /\ derived = NoDerived
    /\ lines = NoLines
    /\ crossovers = NoCrossovers
    /\ route = NoRequest

\* one turn of getChatCompletion's loop
getChatCompletionLoop ==
    /\ vIdx < Len(raw)
    /\ LET acc == validateRawAction([actions |-> validated, warned |-> warned],
                                    raw[vIdx + 1])
       IN /\ validated' = acc.actions
          /\ warned' = acc.warned
    /\ vIdx' = vIdx + 1
    /\ UNCHANGED <<engineVars, raw, envLog, rawOption, lessonOptions, indVars>>

\* getChatCompletion returns { message, actions }, the route sends it, and
\* handleSubmit executes data.actions
getChatCompletionReturn ==
    /\ vIdx = Len(raw)
    /\ ChatReply(validated)

NextChat ==
    \/ getChatCompletionLoop
    \/ getChatCompletionReturn
    \/ \E b \in BatchIds : Step(b)
    \/ \E b \in BatchIds : Finish(b)
    \/ \E k \in 1..Len(reloads), ok \in BOOLEAN : Resolve(k, ok)

SpecChat == InitChat /\ [][NextChat]_vars

(***************************************************************************)
(* Lesson options: the reply carries no immediate actions and one lesson   *)
(* option, which the user clicks.                                          *)
(***************************************************************************)
\* what the model may put in the actions field of a lesson option
RawOptionActions ==
    { JArr(b) : b \in RawBatches(MaxRaw) \cup RawLoadingBatches \cup { <<>> } }
        \cup { JNull, JStr(""), JStr("zzz"), JNum(7) }

InitLesson ==
    /\ state = SettledState
    /\ reloads = <<>>
    /\ batches = [b \in BatchIds |-> IF b = 1 THEN DoneBatch("chat") ELSE NoBatch]
    /\ active = 0
    /\ mounted = TRUE
    /\ nextBatch = 2
    /\ nPanel = 0
    /\ family = "chat"
    /\ raw = <<>>
    /\ vIdx = 0
    /\ validated = <<>>
    /\ warned = <<>>
    /\ envLog = <<>>
    /\ rawOption \in RawOptionActions
    /\ lessonOptions = NoLessonOptions
    /\ closes = <<>>
    /\ derived = NoDerived
    /\ lines = NoLines
    /\ crossovers = NoCrossovers
    /\ route = NoRequest

\* getChatCompletion extracts the lesson options and returns them
getChatCompletionLessonOptions ==
    /\ ~lessonOptions.returned
    /\ lessonOptions' = [returned |-> TRUE, options |-> extractLessonOptions(rawOption)]
    /\ UNCHANGED <<engineVars, raw, vIdx, validated, warned, envLog, rawOption, indVars>>

\* the user clicks a lesson option of the reply
handleReturnedOptionClick ==
    /\ lessonOptions.returned
    /\ \E k \in 1..Len(lessonOptions.options) :
          handleLessonOptionClick(lessonOptions.options[k].actions)

NextLesson ==
    \/ getChatCompletionLessonOptions
    \/ handleReturnedOptionClick
    \/ \E b \in BatchIds : Step(b)
    \/ \E b \in BatchIds : Finish(b)
    \/ \E k \in 1..Len(reloads), ok \in BOOLEAN : Resolve(k, ok)

SpecLesson == InitLesson /\ [][NextLesson]_vars

(***************************************************************************)
(* The candles route at work: one GET request, the endpoints answering as  *)
(* they please.                                                            *)
(***************************************************************************)
InitRoute ==
    /\ state = initialState
    /\ reloads = <<>>
    /\ batches = [b \in BatchIds |-> NoBatch]
    /\ active = 0
    /\ mounted = FALSE
    /\ nextBatch = 1
    /\ nPanel = 0
    /\ family = "load"
    /\ raw = <<>>
    /\ vIdx = 0
    /\ validated = <<>>
    /\ warned = <<>>
    /\ envLog = <<>>
    /\ rawOption = JNull
    /\ lessonOptions = NoLessonOptions
    /\ closes = <<>>
    /\ derived = NoDerived
    /\ lines = NoLines
    /\ crossovers = NoCrossovers
    /\ route \in { Request(symbol, timeframe) :
                      symbol \in {"", "ETHUSDT"}, timeframe \in {"", "1h", "1w"} }

\* the loop is at an endpoint
routeInLoop == route.answer = NoAnswer /\ route.next \in DOMAIN BINANCE_APIS

routeEndpointSucceeds ==
    /\ routeInLoop
    /\ route' = routeSuccess(route)
    /\ UNCHANGED <<engineVars, chatVars, closes, derived, lines, crossovers>>

routeEndpointFails(outcome) ==
    /\ routeInLoop
    /\ route' = routeFailure(route, outcome)
    /\ UNCHANGED <<engineVars, chatVars, closes, derived, lines, crossovers>>

NextRoute ==
    \/ routeEndpointSucceeds
    \/ \E outcome \in {"notOk", "exception"} : routeEndpointFails(outcome)

SpecRoute == InitRoute /\ [][NextRoute]_vars

(***************************************************************************)
(* The indicator calculations at work: a caller (ChartPanel's indicator    *)
(* effect) holds a series of closing prices and asks for the EMA, the MACD *)
(* or the RSI of it.                                                       *)
(***************************************************************************)
Prices == 1..MaxPrice
Periods == 1..MaxPeriod

\* the series of at most MaxData closing prices, and the closes 1, 2, .., 10
CloseSeries ==
    UNION { { [i \in 1..n |-> Num(c[i])] : c \in [1..n -> Prices] } : n \in 0..MaxData }
        \cup { [i \in 1..10 |-> Num(i)] }

\* the calculations are pure functions of the closes: a behaviour is one call
InitIndicators ==
    /\ state = initialState
    /\ reloads = <<>>
    /\ batches = [b \in BatchIds |-> NoBatch]
    /\ active = 0
    /\ mounted = FALSE
    /\ nextBatch = 1
    /\ nPanel = 0
    /\ family = "indicators"
    /\ raw = <<>>
    /\ vIdx = 0
    /\ validated = <<>>
    /\ warned = <<>>
    /\ envLog = <<>>
    /\ rawOption = JNull
    /\ lessonOptions = NoLessonOptions
    /\ closes \in CloseSeries
    /\ derived = NoDerived
    /\ lines = NoLines
    /\ crossovers = NoCrossovers
    /\ route = NoRequest

drawEMA(period) ==
    /\ derived = NoDerived
    /\ derived' = [kind |-> "EMA", params |-> <<period>>,
                   series |-> << calculateEMA(closes, period) >>]
    /\ UNCHANGED <<engineVars, chatVars, closes, lines, crossovers, route>>

drawMACD(fast, slow, signal) ==
    /\ derived = NoDerived
    /\ derived' = LET macd == calculateMACD(closes, fast, slow, signal)
                  IN [kind |-> "MACD", params |-> <<fast, slow, signal>>,
                      series |-> << macd.macdLine, macd.signalLine, macd.histogram >>]
    /\ UNCHANGED <<engineVars, chatVars, closes, lines, crossovers, route>>

drawRSI(period) ==
    /\ derived = NoDerived
    /\ derived' = [kind |-> "RSI", params |-> <<period>>,
                   series |-> << calculateRSI(closes, period) >>]
    /\ UNCHANGED <<engineVars, chatVars, closes, lines, crossovers, route>>

NextIndicators ==
    \/ \E period \in Periods : drawEMA(period)
    \/ \E fast \in Periods, slow \in Periods, signal \in Periods :
          drawMACD(fast, slow, signal)
    \/ \E period \in Periods : drawRSI(period)

SpecIndicators == InitIndicators /\ [][NextIndicators]_vars

(***************************************************************************)
(* The crossover detectors at work: a caller hands two aligned series and  *)
(* the times of their indices to a detector.                               *)
(***************************************************************************)
Samples == { null, Num(-1), Num(0), Num(1) }

\* the times of n indices: increasing, or decreasing
TimesOf(n) == { [i \in 1..n |-> 10 * i], [i \in 1..n |-> 10 * (n + 1 - i)] }

\* the pairs of series of the same length, at most MaxSamples, with times
DetectorInputs ==
    UNION { [macdLine : [1..n -> Samples], signalLine : [1..n -> Samples],
             times : TimesOf(n)] : n \in 0..MaxSamples }

InitDetector ==
    /\ state = initialState
    /\ reloads = <<>>
    /\ batches = [b \in BatchIds |-> NoBatch]
    /\ active = 0
    /\ mounted = FALSE
    /\ nextBatch = 1
    /\ nPanel = 0
    /\ family = "indicators"
    /\ raw = <<>>
    /\ vIdx = 0
    /\ validated = <<>>
    /\ warned = <<>>
    /\ envLog = <<>>
    /\ rawOption = JNull
    /\ lessonOptions = NoLessonOptions
    /\ closes = <<>>
    /\ derived = NoDerived
    /\ lines \in DetectorInputs
    /\ crossovers = NoCrossovers
    /\ route = NoRequest

detectMACDCrossovers ==
    /\ crossovers = NoCrossovers
    /\ crossovers' = [by |-> "findMACDCrossovers",
                      events |-> findMACDCrossovers(lines.macdLine, lines.signalLine,
                                                    lines.times)]
    /\ UNCHANGED <<engineVars, chatVars, closes, derived, lines, route>>

detectZeroLineCrossovers ==
    /\ crossovers = NoCrossovers
    /\ crossovers' = [by |-> "findZeroLineCrossovers",
                      events |-> findZeroLineCrossovers(lines.macdLine, lines.times)]
    /\ UNCHANGED <<engineVars, chatVars, closes, derived, lines, route>>

NextDetector ==
    \/ detectMACDCrossovers
    \/ detectZeroLineCrossovers

SpecDetector == InitDetector /\ [][NextDetector]_vars

(***************************************************************************)
(* The reference execution of a batch of validated commands: what          *)
(* executeActions does with it from the provider m, as one function of the *)
(* batch and of the candle fetch resolutions.                              *)
(***************************************************************************)
\* run batch b from its command i up to its next await or to its end
RECURSIVE RunBatch(_, _, _, _, _)
RunBatch(m, actions, cap, b, i) ==
    IF i > Len(actions)
    THEN [m |-> m, pc |-> 0, status |-> "done"]
    ELSE LET m1 == executeAction(m, actions[i], cap, b, i)
         IN IF executeActionsAfter(actions[i]) = "running"
            THEN RunBatch(m1, actions, cap, b, i + 1)
            ELSE [m |-> loadCandlesEffect(m.state, m1), pc |-> i,
                  status |-> "suspended"]

\* go on from run through the resolutions of log
RECURSIVE ReplayFrom(_, _, _, _, _)
ReplayFrom(run, actions, cap, b, log) ==
    IF log = <<>>
    THEN run
    ELSE LET k == log[1][1]
             r == run.m.reloads[k]
             m1 == loadCandlesResolved(run.m, k, log[1][2])
             waits == r.owner = b /\ run.status = "suspended" /\ run.pc = r.cmd
         IN ReplayFrom(IF waits
                       THEN RunBatch(m1, actions, cap, b, r.cmd + 1)
                       ELSE [run EXCEPT !.m = m1],
                       actions, cap, b, Tail(log))

\* batch 1 of the chat pipeline, had its actions been these
Replay(actions) ==
    ReplayFrom(RunBatch(SettledM, actions, SettledCap, 1, 1), actions,
               SettledCap, 1, envLog)

(***************************************************************************)
(* Properties of the execution engine, checked under Spec.                 *)
(***************************************************************************)
\* batch b has just executed a command: its position moved on by one
Executes(b) == batches'[b].pc = batches[b].pc + 1

\* the command batch b executes in this step
Executed(b) == batches[b].actions[batches[b].pc + 1]

\* the configs of one name in an indicators list
ConfigsOf(indicators, name) == SelectSeq(indicators, LAMBDA c : c.name = name)

C2_BatchesNeverInterleave ==
    [][ (\E b \in BatchIds : batches[b].status = "suspended")
            => /\ nPanel' = nPanel
               /\ \A b \in BatchIds : ~Executes(b) ]_vars

\* C8: in every reachable state the indicators list holds at most one config
\* per indicator name.
C8_OneConfigPerName ==
    \A i, j \in DOMAIN state.indicators :
        state.indicators[i].name = state.indicators[j].name => i = j

\* after an indicator toggle, a batch has added the same indicator twice in a row
C8_Witness ==
    /\ nPanel >= 1
    /\ \E b \in BatchIds :
          /\ active = b
          /\ batches[b].pc = 2
          /\ batches[b].actions[1].type = "ADD_INDICATOR"
          /\ batches[b].actions[2].type = "ADD_INDICATOR"
          /\ batches[b].actions[1].indicator = batches[b].actions[2].indicator
          /\ HasIndicator(state.indicators, batches[b].actions[2].indicator)

\* the defaults the specification lists for ADD_INDICATOR without params
SpecDefaultParams(indicator) ==
    CASE indicator = "MACD" -> [fast |-> 12, slow |-> 26, signal |-> 9]
      [] indicator = "RSI" -> [period |-> 14]
      [] indicator = "EMA" -> [period |-> 20]

\* C9: after ADD_INDICATOR for name X the state holds exactly one config for
\* X, visible, with the command's params, or with the defaults of its type
\* when the command has none; so a second ADD_INDICATOR for X leaves the
\* params of the second call.
C9_AddIndicatorUpserts ==
    [][ \A b \in BatchIds :
          (Executes(b) /\ Executed(b).type = "ADD_INDICATOR") =>
              LET cfgs == ConfigsOf(state'.indicators, Executed(b).indicator)
              IN /\ Len(cfgs) = 1
                 /\ cfgs[1].visible = TRUE
                 /\ cfgs[1].params =
                       IF "params" \in DOMAIN Executed(b)
                       THEN Executed(b).params
                       ELSE SpecDefaultParams(Executed(b).indicator) ]_vars

\* MACD added with no params, then added again with explicit params: one MACD
\* config, with the params of the second call
C9_Witness ==
    \E b \in BatchIds :
        /\ active = b
        /\ batches[b].actions = <<AddMacd, AddMacdParams>>
        /\ batches[b].pc = 2
        /\ ConfigsOf(state.indicators, "MACD") =
              << [name |-> "MACD", params |-> AddMacdParams.params, visible |-> TRUE] >>

\* C10: UPDATE_INDICATOR_PARAMS for name X replaces the params of the config
\* of X by the command's params, with no merge, and keeps its visible flag and
\* its position; it changes nothing else, and when no config of X is active
\* the state is unchanged and no config is created.
C10_UpdateReplacesParams ==
    [][ \A b \in BatchIds :
          (Executes(b) /\ Executed(b).type = "UPDATE_INDICATOR_PARAMS") =>
              /\ DOMAIN state'.indicators = DOMAIN state.indicators
              /\ \A k \in DOMAIN state.indicators :
                    state'.indicators[k] =
                       IF state.indicators[k].name = Executed(b).indicator
                       THEN [name |-> state.indicators[k].name,
                             params |-> Executed(b).params,
                             visible |-> state.indicators[k].visible]
                       ELSE state.indicators[k]
              /\ [state' EXCEPT !.indicators = state.indicators] = state
              /\ ~HasIndicator(state.indicators, Executed(b).indicator)
                     => state' = state ]_vars

\* MACD with its three default params, then updated with fast alone: the
\* config keeps its place beside RSI and holds fast alone
C10_Witness ==
    /\ Len(state.indicators) = 2
    /\ state.indicators[2] = [name |-> "MACD", params |-> UpdateMacd.params,
                              visible |-> TRUE]
    /\ \E b \in BatchIds :
          /\ active = b
          /\ batches[b].actions = <<AddMacd, UpdateMacd>>
          /\ batches[b].pc = 2

(***************************************************************************)
(* Properties of validation and of the chat pipeline, checked under        *)
(* SpecChat.                                                               *)
(***************************************************************************)
Range(f) == { f[i] : i \in DOMAIN f }

\* the raw actions the loop has been through
Processed == { raw[i] : i \in 1..vIdx }

\* the commands of the raw actions that conform, in their order
ValidOnly(rawActions) ==
    LET valid == SelectSeq(rawActions, ChartActionSchemaAccepts)
    IN [i \in DOMAIN valid |-> ChartActionSchemaParse(valid[i])]

\* the pipeline is through the tool call and no JavaScript is running
Quiescent == vIdx = Len(raw) /\ batches[1].status \in {"suspended", "done"} /\ active = 0

\* C3: for a batch of n raw commands of which k fail validation, the state
\* after processing is the state that applying only the n-k valid commands,
\* in their original order, gives under the same candle fetch resolutions,
\* and no rejected command raises an error: the loop goes through all n and
\* hands on exactly the n-k valid ones.
C3_InvalidCommandsSkipped ==
    /\ vIdx = Len(raw) =>
          /\ validated = ValidOnly(raw)
          /\ Len(warned) = Len(raw) - Len(ValidOnly(raw))
    /\ Quiescent =>
          LET run == Replay(ValidOnly(raw))
          IN /\ M = run.m
             /\ batches[1].status = run.status
             /\ batches[1].pc = run.pc

\* three raw commands, the middle one invalid, the two valid ones applied
C3_Witness ==
    /\ Quiescent
    /\ Len(raw) = 3
    /\ ~ChartActionSchemaAccepts(raw[2])
    /\ Len(validated) = 2
    /\ validated[1] # validated[2]
    /\ batches[1].status = "done"
    /\ state.symbol = "ETHUSDT"
    /\ state.indicators # <<>>

\* the 11 command tags the specification lists
SpecTags ==
    { "SET_SYMBOL", "SET_TIMEFRAME", "LOAD_CANDLES", "ADD_INDICATOR",
      "UPDATE_INDICATOR_PARAMS", "HIGHLIGHT_POINTS", "HIGHLIGHT_REGION",
      "ADD_ANNOTATION", "FOCUS_RANGE", "CLEAR_HIGHLIGHTS", "CLEAR_INDICATORS" }

\* the payload is an object whose type is one of the 11 tags
HasSpecTag(p) ==
    /\ p.t = "object"
    /\ "type" \in DOMAIN p.o
    /\ p.o["type"].t = "string"
    /\ p.o["type"].s \in SpecTags

\* C4: a payload is accepted only if its type field is one of the 11 command
\* tags: every raw action the loop has been through whose type is absent or
\* anything else has been skipped with a warning, and every validated command
\* carries one of the 11 tags.
C4_TypeIsOneOfElevenTags ==
    /\ \A p \in Processed : ~HasSpecTag(p) => p \in Range(warned)
    /\ \A i \in DOMAIN validated : validated[i].type \in SpecTags
    /\ Len(validated) + Len(warned) = vIdx

\* a tool call with a reducer action and with a command: the first skipped,
\* the second validated
C4_Witness ==
    /\ vIdx = Len(raw)
    /\ RawRemoveIndicator \in Range(warned)
    /\ validated # <<>>

\* the value sets the specification gives the enumerated fields
SpecEnums ==
    [timeframe |-> {"1h", "4h", "1d"}, indicator |-> {"MACD", "RSI", "EMA"},
     pane |-> {"price", "indicator"}]

\* the enumerated fields of a record of a command are in their sets
EnumsIn(rec) ==
    \A f \in (DOMAIN rec) \cap (DOMAIN SpecEnums) : rec[f] \in SpecEnums[f]

\* C5: no command accepted by the validator carries a timeframe, indicator or
\* pane value outside its closed value set, in any variant that has such a
\* field (at top level, in region, in annotation, in a point), LOAD_CANDLES
\* included.
C5_EnumsAreClosed ==
    \A i \in DOMAIN validated :
        LET c == validated[i]
        IN /\ EnumsIn(c)
           /\ "region" \in DOMAIN c => EnumsIn(c.region)
           /\ "annotation" \in DOMAIN c => EnumsIn(c.annotation)
           /\ "points" \in DOMAIN c => \A k \in DOMAIN c.points : EnumsIn(c.points[k])

\* the fields the specification requires of each tag, and of the object or
\* the array elements a tag nests, with the JSON type of each
SpecRequired ==
    [SET_SYMBOL |-> [symbol |-> "string"],
     SET_TIMEFRAME |-> [timeframe |-> "string"],
     LOAD_CANDLES |-> [symbol |-> "string", timeframe |-> "string"],
     ADD_INDICATOR |-> [indicator |-> "string"],
     UPDATE_INDICATOR_PARAMS |-> [indicator |-> "string", params |-> "object"],
     HIGHLIGHT_POINTS |-> [points |-> "array"],
     HIGHLIGHT_REGION |-> [region |-> "object"],
     ADD_ANNOTATION |-> [annotation |-> "object"],
     FOCUS_RANGE |-> [range |-> "object"],
     CLEAR_HIGHLIGHTS |-> <<>>,
     CLEAR_INDICATORS |-> <<>>]

SpecRequiredInside ==
    [points |-> [time |-> "number"],
     region |-> [fromTime |-> "number", toTime |-> "number"],
     annotation |-> [time |-> "number", text |-> "string"],
     range |-> [fromTime |-> "number", toTime |-> "number"]]

\* a required field of the object o is missing, or has another type than the
\* required one (a number that is not finite is no number)
LacksRequired(o, required) ==
    \E f \in DOMAIN required : f \notin DOMAIN o \/ o[f].t # required[f]

\* a payload of a known type with a required field missing, wrong-typed or
\* not finite, at top level or in what its type nests
Defective(p) ==
    /\ HasSpecTag(p)
    /\ \/ LacksRequired(p.o, SpecRequired[p.o["type"].s])
       \/ \E f \in (DOMAIN p.o) \cap (DOMAIN SpecRequiredInside) :
             \/ /\ p.o[f].t = "object"
                /\ LacksRequired(p.o[f].o, SpecRequiredInside[f])
             \/ /\ p.o[f].t = "array"
                /\ \E k \in DOMAIN p.o[f].a :
                      \/ p.o[f].a[k].t # "object"
                      \/ LacksRequired(p.o[f].a[k].o, SpecRequiredInside[f])

\* C6: a payload with a known type is rejected when a field its type requires
\* is missing, has the wrong type or is a number that is not finite; the
\* rejection affects that command only: the conforming payloads of the same
\* tool call are validated whatever stands beside them, each raw action
\* ending either validated or skipped.
C6_DefectiveCommandRejectedAlone ==
    /\ \A p \in Processed : Defective(p) => p \in Range(warned)
    /\ \A p \in Processed \cap RawBase : p \notin Range(warned)
    /\ Len(validated) = Cardinality({ i \in 1..vIdx : raw[i] \notin Range(warned) })

\* a tool call whose first action lacks a required field and whose second
\* conforms: the first skipped, the second validated and applied
C6_Witness ==
    /\ Quiescent
    /\ Len(raw) >= 2
    /\ Defective(raw[1])
    /\ raw[1] \in Range(warned)
    /\ raw[2] \in RawBase
    /\ Len(validated) = Len(raw) - 1
    /\ state # SettledState

\* the payload without the keys that the schema sch does not list
RECURSIVE StripTo(_, _)
StripTo(sch, v) ==
    CASE sch.kind = "optional" -> StripTo(sch.inner, v)
      [] sch.kind = "object" /\ v.t = "object" ->
            JObj([k \in (DOMAIN v.o) \cap (DOMAIN sch.shape) |->
                     StripTo(sch.shape[k], v.o[k])])
      [] sch.kind = "array" /\ v.t = "array" ->
            JArr([i \in DOMAIN v.a |-> StripTo(sch.element, v.a[i])])
      [] OTHER -> v

\* the payload without the fields outside the schema of its type
StripExtras(p) ==
    IF OptionFor(p) = 0 THEN p ELSE StripTo(ChartActionSchemaOptions[OptionFor(p)], p)

\* C7: unknown extra fields have no influence: a payload and the payload
\* without its fields outside the schema of its type (at top level or inside
\* points, region, annotation or range) are both accepted or both rejected and
\* yield the same validated command, and the tool call leads to the state the
\* tool call without those fields leads to.
C7_ExtraFieldsHaveNoInfluence ==
    /\ \A p \in Processed :
          /\ (p \in Range(warned)) = ~ChartActionSchemaAccepts(StripExtras(p))
          /\ p \notin Range(warned) =>
                ChartActionSchemaParse(StripExtras(p)) \in Range(validated)
    /\ vIdx = Len(raw) =>
          validated = ValidOnly([i \in DOMAIN raw |-> StripExtras(raw[i])])
    /\ Quiescent =>
          M = Replay(ValidOnly([i \in DOMAIN raw |-> StripExtras(raw[i])])).m

\* a payload with a field no schema knows, validated and applied
C7_Witness ==
    /\ Quiescent
    /\ \E i \in DOMAIN raw :
          /\ StripExtras(raw[i]) # raw[i]
          /\ "extra" \in DOMAIN raw[i].o
          /\ ChartActionSchemaAccepts(raw[i])
    /\ Len(validated) = Len(raw)
    /\ state.highlights # <<>>

(***************************************************************************)
(* Properties of the single commands.                                      *)
(***************************************************************************)
\* the boundary point the specification describes: the region's pane, no
\* price, and the prefixed label when labelled says the region has a label
SpecRegionPoint(region, time, prefix, labelled) ==
    LET base == IF "pane" \in DOMAIN region
                THEN [time |-> time, pane |-> region.pane]
                ELSE [time |-> time]
    IN IF labelled
       THEN [f \in (DOMAIN base) \cup {"label"} |->
                IF f = "label" THEN prefix \o region.label ELSE base[f]]
       ELSE base

\* C11 as stated: HIGHLIGHT_REGION appends exactly two highlight points, the
\* first at fromTime and the second at toTime, both with the region's pane and
\* no price, labelled 'Start: <label>' and 'End: <label>' when the region has
\* a label and without label otherwise.
C11_RegionLabelledWheneverLabelGiven ==
    [][ \A b \in BatchIds :
          (Executes(b) /\ Executed(b).type = "HIGHLIGHT_REGION") =>
              LET region == Executed(b).region
                  labelled == "label" \in DOMAIN region
              IN state'.highlights = state.highlights \o
                    << SpecRegionPoint(region, region.fromTime, "Start: ", labelled),
                       SpecRegionPoint(region, region.toTime, "End: ", labelled) >> ]_vars

\* C11 amended: the two points are labelled when the region has a label that
\* is not the empty string, and have no label otherwise; HIGHLIGHT_REGION
\* changes nothing but highlights.
C11_RegionLabelledWhenLabelNotEmpty ==
    [][ \A b \in BatchIds :
          (Executes(b) /\ Executed(b).type = "HIGHLIGHT_REGION") =>
              LET region == Executed(b).region
                  labelled == "label" \in DOMAIN region /\ region.label # ""
              IN /\ state'.highlights = state.highlights \o
                       << SpecRegionPoint(region, region.fromTime, "Start: ", labelled),
                          SpecRegionPoint(region, region.toTime, "End: ", labelled) >>
                 /\ [state' EXCEPT !.highlights = state.highlights] = state ]_vars

\* a labelled region on the indicator pane has been applied: two points, at
\* 100 and at 200, labelled Start and End
C11_Witness ==
    /\ batches[1].pc >= 1
    /\ batches[1].actions[batches[1].pc].type = "HIGHLIGHT_REGION"
    /\ state.highlights =
          << [time |-> 100, pane |-> "indicator", label |-> "Start: L"],
             [time |-> 200, pane |-> "indicator", label |-> "End: L"] >>

\* C12: CLEAR_HIGHLIGHTS, from a batch or from the chart panel's button,
\* leaves highlights and annotations empty and changes nothing else.
C12_ClearHighlightsFrame ==
    [][ /\ \A b \in BatchIds :
              (Executes(b) /\ Executed(b).type = "CLEAR_HIGHLIGHTS") =>
                  /\ state'.highlights = <<>>
                  /\ state'.annotations = <<>>
                  /\ [state' EXCEPT !.highlights = state.highlights,
                                    !.annotations = state.annotations] = state
        /\ (nPanel' = nPanel + 1 /\ family = "overlays") =>
              /\ state'.highlights = <<>>
              /\ state'.annotations = <<>>
              /\ [state' EXCEPT !.highlights = state.highlights,
                                !.annotations = state.annotations] = state ]_vars

\* an annotation added, then cleared by the next command of the batch
C12_Witness ==
    \E b \in BatchIds :
        /\ active = b
        /\ batches[b].actions = <<AddAnnotation, ClearHighlights>>
        /\ batches[b].pc = 2
        /\ state.highlights = <<>>
        /\ state.annotations = <<>>

(***************************************************************************)
(* Properties of the candle reloads.                                       *)
(***************************************************************************)
\* every candle fetch of the chat pipeline so far has failed / has succeeded
AllFailed == envLog # <<>> /\ \A i \in DOMAIN envLog : ~envLog[i][2]
AllSucceeded == \A i \in DOMAIN envLog : envLog[i][2]

\* the batch of the chat pipeline has finished and no fetch is in flight
Settled == Quiescent /\ batches[1].status = "done" /\ reloads = <<>>

\* C13: when the candle reload triggered by SET_SYMBOL, SET_TIMEFRAME or
\* LOAD_CANDLES fails, the prior candles and the prior state are untouched:
\* after a reply with that one command, all of whose fetches failed, the state
\* is the state before the command.
C13_FailedReloadLeavesStateUntouched ==
    (Settled /\ Len(validated) = 1 /\ validated[1].type \in
         {"SET_SYMBOL", "SET_TIMEFRAME", "LOAD_CANDLES"} /\ AllFailed)
        => state = SettledState

\* C14: a failed candle reload leaves an indication in the state: for a fetch
\* in flight that would deliver the candles the state already holds, the state
\* after its failure differs from the state after its success.
C14_FailureIsObservable ==
    \A k \in DOMAIN reloads :
        CandlesOf(reloads[k].symbol, reloads[k].timeframe) = state.candles
            => loadCandlesResolved(M, k, FALSE).state # loadCandlesResolved(M, k, TRUE).state

\* C15: executeActions never ends by a raised error, whichever reloads fail:
\* when the load a batch awaits settles, by success or by failure, the batch
\* goes on at the command it waited at; its position moves on one command at
\* a time, and it ends only when it is through all its commands.
C15_BatchSurvivesFailedReloads ==
    [][ \A b \in BatchIds :
          /\ batches'[b].status # "failed"
          /\ (batches[b].status = "suspended" /\ batches'[b].status # "suspended") =>
                /\ batches'[b].status = "running"
                /\ batches'[b].pc = batches[b].pc
                /\ batches'[b].actions = batches[b].actions
                /\ active' = b
          /\ (batches[b].status \in {"running", "suspended"}
                 /\ batches'[b].status = "done") =>
                /\ batches[b].status = "running"
                /\ batches[b].pc = Len(batches[b].actions)
          /\ (batches[b].status \in {"running", "suspended"}
                 /\ batches'[b].status \in {"running", "suspended"}
                 /\ batches'[b].pc # batches[b].pc) => Executes(b) ]_vars

\* the fetch of LOAD_CANDLES has failed and the next command of the batch,
\* ADD_INDICATOR, has been applied
C15_Witness ==
    /\ envLog = << <<1, FALSE>> >>
    /\ active = 1
    /\ batches[1].pc = 2
    /\ batches[1].actions[1].type = "LOAD_CANDLES"
    /\ batches[1].actions[2].type = "ADD_INDICATOR"
    /\ state.indicators # <<>>
    /\ state.candles = SettledState.candles

\* C16: after a batch of SET_SYMBOL and SET_TIMEFRAME commands whose reloads
\* all succeed has finished and no reload is in flight, the candles in the
\* state are those of the state's current symbol and timeframe.
C16_CandlesMatchSymbolAndTimeframe ==
    (Settled /\ validated # <<>> /\ AllSucceeded
       /\ \A i \in DOMAIN validated : validated[i].type \in {"SET_SYMBOL", "SET_TIMEFRAME"})
        => state.candles = CandlesOf(state.symbol, state.timeframe)

\* C17: only SET_SYMBOL, SET_TIMEFRAME and LOAD_CANDLES suspend: a batch that
\* executes one of the other eight commands starts no candle fetch, leaves
\* isLoading as it is and keeps running; a batch that executes one of the
\* three starts a fetch and waits.
C17_OnlyThreeCommandsSuspend ==
    [][ \A b \in BatchIds :
          Executes(b) =>
              IF Executed(b).type \in {"SET_SYMBOL", "SET_TIMEFRAME", "LOAD_CANDLES"}
              THEN /\ batches'[b].status = "suspended"
                   /\ Len(reloads') > Len(reloads)
              ELSE /\ batches'[b].status = "running"
                   /\ active' = b
                   /\ reloads' = reloads
                   /\ state'.isLoading = state.isLoading ]_vars

\* a batch has applied two commands that are none of the three, one after
\* the other, while a fetch is in flight
C17_Witness ==
    \E b \in BatchIds :
        /\ active = b
        /\ batches[b].pc = 2
        /\ batches[b].actions[1].type \notin {"SET_SYMBOL", "SET_TIMEFRAME", "LOAD_CANDLES"}
        /\ batches[b].actions[2].type \notin {"SET_SYMBOL", "SET_TIMEFRAME", "LOAD_CANDLES"}
        /\ reloads # <<>>
        /\ state.isLoading

\* C18: LOAD_CANDLES requests exactly the symbol and the timeframe of the
\* command, with the command's from and to bounds when it has them, and
\* leaves state.symbol and state.timeframe as they were.
C18_LoadCandlesRequestsWhatItIsGiven ==
    [][ \A b \in BatchIds :
          (Executes(b) /\ Executed(b).type = "LOAD_CANDLES") =>
              /\ Len(reloads') = Len(reloads) + 1
              /\ LET request == reloads'[Len(reloads')]
                 IN /\ request.symbol = Executed(b).symbol
                    /\ request.timeframe = Executed(b).timeframe
                    /\ \A f \in {"from", "to"} \cap DOMAIN Executed(b) :
                          f \in DOMAIN request /\ request[f] = Executed(b)[f]
              /\ state'.symbol = state.symbol
              /\ state'.timeframe = state.timeframe ]_vars

(***************************************************************************)
(* C19, C20: the lengths of the derived series.                            *)
(***************************************************************************)

\* C19: every derived series (the EMA, the MACD's macdLine, signalLine and
\* histogram, the RSI) has exactly as many entries as the input series,
\* for every input length and every period of at least 1.
C19_SeriesKeepInputLength ==
    \A i \in 1..Len(derived.series) : Len(derived.series[i]) = Len(closes)

\* the input is shorter than the calculation's warm-up
Insufficient ==
    CASE derived.kind = "EMA" -> Len(closes) < derived.params[1]
      [] derived.kind = "MACD" -> Len(closes) < derived.params[2]
      [] derived.kind = "RSI" -> Len(closes) < derived.params[1] + 1
      [] OTHER -> FALSE

\* C20: with input shorter than the warm-up (EMA: fewer than period values,
\* MACD: fewer than slow, RSI: fewer than period + 1) a calculation returns
\* series of the input's length whose entries are all undefined.
C20_InsufficientInputGivesAllUndefined ==
    Insufficient =>
        \A i \in 1..Len(derived.series) :
            derived.series[i] = [j \in 1..Len(closes) |-> null]

\* a MACD whose fast EMA is defined everywhere and whose slow EMA nowhere
C20_Witness ==
    /\ derived.kind = "MACD"
    /\ derived.params = <<1, 3, 1>>
    /\ Len(closes) = 2
    /\ derived.series = << <<null, null>>, <<null, null>>, <<null, null>> >>

(***************************************************************************)
(* C21..C23: the exponential moving average.                               *)
(***************************************************************************)

\* an EMA was computed with a period the input is long enough for
EMAComputed == derived.kind = "EMA" /\ derived.params[1] <= Len(closes)

\* C21: for 1 <= p <= data.length, EMA(data, p) is undefined at every index
\* below p - 1 and defined at index p - 1 and at every later index.
C21_EMADefinedFromSeedOn ==
    EMAComputed =>
        \A i \in 1..Len(closes) :
            (derived.series[1][i] = null) <=> (i - 1 < derived.params[1] - 1)

C21_Witness ==
    /\ EMAComputed
    /\ derived.params[1] = 2
    /\ Len(closes) = 3
    /\ derived.series[1][1] = null
    /\ derived.series[1][2] # null
    /\ derived.series[1][3] # null

\* C22: for 1 <= p <= data.length, EMA(data, p)[p - 1] is the arithmetic mean
\* of data[0..p-1]: p times the value is the sum of the first p closes.
C22_EMASeedIsMean ==
    EMAComputed =>
        LET p == derived.params[1]
        IN /\ derived.series[1][p] # null
           /\ Times(derived.series[1][p], Num(p)) = ReduceSum(SubSeq(closes, 1, p))

C22_Witness ==
    /\ EMAComputed
    /\ derived.params[1] = 3
    /\ closes = << Num(1), Num(3), Num(2) >>
    /\ derived.series[1][3] = Num(2)

\* C23: at every index i > period - 1, ema[i] = (data[i] - ema[i-1]) *
\* 2/(period+1) + ema[i-1]; for the closes 1..10 and period 3 the output
\* starts undefined, undefined, 2, 3.
C23_EMARecursion ==
    EMAComputed =>
        LET p == derived.params[1]
            ema == derived.series[1]
            multiplier == Over(Num(2), Num(p + 1))
        IN /\ \A i \in (p + 1)..Len(closes) :
                  ema[i] = Plus(Times(Minus(closes[i], ema[i - 1]), multiplier),
                                ema[i - 1])
           /\ (closes = [i \in 1..10 |-> Num(i)] /\ p = 3)
                  => SubSeq(ema, 1, 4) = << null, null, Num(2), Num(3) >>

C23_Witness ==
    /\ EMAComputed
    /\ derived.params[1] = 3
    /\ closes = [i \in 1..10 |-> Num(i)]
    /\ SubSeq(derived.series[1], 1, 4) = << null, null, Num(2), Num(3) >>

(***************************************************************************)
(* C24, C25: the MACD.                                                     *)
(***************************************************************************)

\* the indices (from 1) at which a series is defined, and the first of them
Defined(series) == { i \in 1..Len(series) : series[i] # null }
FirstDefined(series) == CHOOSE i \in Defined(series) : \A j \in Defined(series) : i <= j

\* C24: the signal line's first defined index is the first defined index of
\* macdLine plus signalPeriod - 1, for all periods and every input long
\* enough to have one: the signal line is undefined at every earlier index
\* and defined at every later one (and nowhere when macdLine is never defined).
C24_SignalWarmUpStartsAtFirstMacd ==
    derived.kind = "MACD" =>
        LET macdLine == derived.series[1]
            signalLine == derived.series[2]
            signalPeriod == derived.params[3]
        IN \A i \in 1..Len(closes) :
              (signalLine[i] # null) <=>
                  /\ Defined(macdLine) # {}
                  /\ i >= FirstDefined(macdLine) + signalPeriod - 1

C24_Witness ==
    /\ derived.kind = "MACD"
    /\ derived.params = <<1, 2, 2>>
    /\ Len(closes) = 4
    /\ FirstDefined(derived.series[1]) = 2
    /\ FirstDefined(derived.series[2]) = 3
    /\ Defined(derived.series[2]) = {3, 4}

\* C25: macdLine[i] is defined exactly when fastEMA[i] and slowEMA[i] both
\* are, and is then their difference; histogram[i] is defined exactly when
\* macdLine[i] and signalLine[i] both are, and is then macdLine[i] -
\* signalLine[i]; signalLine[i] is never defined where macdLine[i] is not.
C25_MacdAndHistogramAreDifferences ==
    derived.kind = "MACD" =>
        LET fastEMA == calculateEMA(closes, derived.params[1])
            slowEMA == calculateEMA(closes, derived.params[2])
            macdLine == derived.series[1]
            signalLine == derived.series[2]
            histogram == derived.series[3]
        IN \A i \in 1..Len(closes) :
              /\ (macdLine[i] # null) <=> (fastEMA[i] # null /\ slowEMA[i] # null)
              /\ macdLine[i] # null => Plus(macdLine[i], slowEMA[i]) = fastEMA[i]
              /\ (histogram[i] # null) <=> (macdLine[i] # null /\ signalLine[i] # null)
              /\ histogram[i] # null => Plus(histogram[i], signalLine[i]) = macdLine[i]
              /\ macdLine[i] = null => signalLine[i] = null

C25_Witness ==
    /\ derived.kind = "MACD"
    /\ derived.params = <<2, 1, 2>>
    /\ Len(closes) = 3
    /\ derived.series[1][1] = null
    /\ derived.series[1][2] # null
    /\ derived.series[3][2] = null
    /\ derived.series[3][3] # null
    /\ derived.series[3][3] # Num(0)

(***************************************************************************)
(* C26..C29: the relative strength index.                                  *)
(***************************************************************************)

\* C26: every defined RSI value lies in [0, 100], for every price series and
\* every period of at least 1.
C26_RSIBetween0And100 ==
    derived.kind = "RSI" =>
        \A i \in Defined(derived.series[1]) :
            LET rsi == derived.series[1][i]
            IN 0 <= rsi.n /\ rsi.n <= 100 * rsi.d

\* an RSI strictly between the ends, after a gain and a loss
C26_Witness ==
    /\ derived.kind = "RSI"
    /\ derived.params = <<2>>
    /\ Len(closes) = 4
    /\ 4 \in Defined(derived.series[1])
    /\ derived.series[1][4] \notin { Num(0), Num(100) }

\* all closes are the same price
ConstantCloses == \A i \in 1..Len(closes) : closes[i] = closes[1]

RSIDefinedInInput == Defined(derived.series[1]) \cap 1..Len(closes)

\* C28: RSI(data, period) has a defined value at some index of the input if
\* and only if data.length >= period + 1; when it has one, every index before
\* the first defined value is undefined and every index from it to the last
\* index of the input is defined.
C28_RSIDefinedIffLongEnough ==
    derived.kind = "RSI" =>
        /\ (RSIDefinedInInput # {}) <=> (Len(closes) >= derived.params[1] + 1)
        /\ RSIDefinedInInput # {} =>
              \A i \in 1..Len(closes) :
                  (i \in RSIDefinedInInput) <=>
                      (i >= FirstDefined(derived.series[1]))

\* the price deltas (delta i ends at index i, counted from 0), their gains
\* and their losses
Deltas == [i \in 1..(Len(closes) - 1) |-> Minus(closes[i + 1], closes[i])]
Gains == [i \in DOMAIN Deltas |-> IF Positive(Deltas[i]) THEN Deltas[i] ELSE Num(0)]
Losses == [i \in DOMAIN Deltas |-> IF Negative(Deltas[i]) THEN MathAbs(Deltas[i]) ELSE Num(0)]

\* Wilder's average of the first i amounts, i >= period: the mean of the first
\* period amounts, then avg = (avg * (period - 1) + current) / period for
\* each later amount in order
RECURSIVE SpecWilder(_, _, _)
SpecWilder(amounts, period, i) ==
    IF i = period THEN Over(ReduceSum(SubSeq(amounts, 1, period)), Num(period))
    ELSE Over(Plus(Times(SpecWilder(amounts, period, i - 1), Num(period - 1)),
                   amounts[i]),
              Num(period))

\* C29: the averages are seeded from exactly the first period deltas and
\* every later delta enters the recursion once and in order, none skipped:
\* the RSI at an index of the input reflects all deltas up to and including
\* the one that ends at that index.
C29_RSIReflectsEveryDelta ==
    derived.kind = "RSI" =>
        \A i \in RSIDefinedInInput :
            derived.series[1][i] =
                RSIValue(SpecWilder(Gains, derived.params[1], i - 1),
                         SpecWilder(Losses, derived.params[1], i - 1))

(***************************************************************************)
(* C30: the crossover detector.                                            *)
(***************************************************************************)

\* all four samples of the pair (i - 1, i) are defined (indices from 1)
PairDefined(i) ==
    /\ lines.macdLine[i - 1] # null
    /\ lines.macdLine[i] # null
    /\ lines.signalLine[i - 1] # null
    /\ lines.signalLine[i] # null

\* A[i-1] <= B[i-1] and A[i] > B[i]
SpecBullish(i) ==
    /\ PairDefined(i)
    /\ ~Less(lines.signalLine[i - 1], lines.macdLine[i - 1])
    /\ Less(lines.signalLine[i], lines.macdLine[i])

\* A[i-1] >= B[i-1] and A[i] < B[i]
SpecBearish(i) ==
    /\ PairDefined(i)
    /\ ~Less(lines.macdLine[i - 1], lines.signalLine[i - 1])
    /\ Less(lines.macdLine[i], lines.signalLine[i])

\* C30: the detector emits an event for index i >= 1, with time times[i],
\* exactly when the four samples A[i-1], A[i], B[i-1], B[i] are defined and
\* either A[i-1] <= B[i-1] and A[i] > B[i] (bullish) or A[i-1] >= B[i-1] and
\* A[i] < B[i] (bearish); a pair that touches an undefined sample gives no
\* event.
C30_CrossoverExactlyAtCrossings ==
    crossovers.by = "findMACDCrossovers" =>
        /\ \A i \in 2..Len(lines.macdLine) :
              /\ SpecBullish(i) <=>
                    [time |-> lines.times[i], type |-> "bullish"] \in Range(crossovers.events)
              /\ SpecBearish(i) <=>
                    [time |-> lines.times[i], type |-> "bearish"] \in Range(crossovers.events)
        /\ \A k \in 1..Len(crossovers.events) :
              \E i \in 2..Len(lines.macdLine) :
                  crossovers.events[k].time = lines.times[i]

\* a pair with an undefined sample is skipped, a touch-and-rise is bullish
C30_Witness ==
    /\ lines.macdLine = << null, Num(0), Num(1) >>
    /\ lines.signalLine = << Num(1), Num(0), Num(0) >>
    /\ lines.times = << 10, 20, 30 >>
    /\ crossovers = [by |-> "findMACDCrossovers",
                     events |-> << [time |-> 30, type |-> "bullish"] >>]

(***************************************************************************)
(* C31, C32: the order of the events, and the zero line.                   *)
(***************************************************************************)

\* the index (from 1) of the pair an event was emitted for: the times of a
\* call are distinct
EventIndex(k) == CHOOSE i \in 1..Len(lines.times) : lines.times[i] = crossovers.events[k].time

TimesIncrease == \A i, j \in 1..Len(lines.times) : i < j => lines.times[i] < lines.times[j]

\* C31: the output of either detector holds at most one event per adjacent
\* index pair and lists the events in increasing index order, hence in
\* strictly increasing time when times is strictly increasing.
C31_EventsInIndexOrder ==
    crossovers.by # "none" =>
        /\ \A k, l \in 1..Len(crossovers.events) :
              k < l => EventIndex(k) < EventIndex(l)
        /\ TimesIncrease =>
              \A k, l \in 1..Len(crossovers.events) :
                  k < l => crossovers.events[k].time < crossovers.events[l].time

\* two events of successive pairs, under decreasing times
C31_Witness ==
    /\ crossovers.by = "findMACDCrossovers"
    /\ lines.times = << 30, 20, 10 >>
    /\ crossovers.events = << [time |-> 20, type |-> "bullish"],
                              [time |-> 10, type |-> "bearish"] >>

\* C32: findZeroLineCrossovers(m, t) returns the event sequence of
\* findMACDCrossovers(m, z, t), z the all-zero series of the length of m.
C32_ZeroLineIsCrossoverWithZeroSeries ==
    crossovers.by = "findZeroLineCrossovers" =>
        crossovers.events =
            findMACDCrossovers(lines.macdLine,
                               [i \in 1..Len(lines.macdLine) |-> Num(0)],
                               lines.times)

C32_Witness ==
    /\ crossovers.by = "findZeroLineCrossovers"
    /\ lines.macdLine = << Num(0), Num(1), Num(-1) >>
    /\ lines.times = << 10, 20, 30 >>
    /\ crossovers.events = << [time |-> 20, type |-> "bullish"],
                              [time |-> 30, type |-> "bearish"] >>

(***************************************************************************)
(* C33: lesson options.                                                    *)
(***************************************************************************)

\* the commands of the raw option's actions that pass the validator, in their
\* order (none when the raw option has no array of actions)
ValidOfOption == IF rawOption.t = "array" THEN ValidOnly(rawOption.a) ELSE <<>>

\* C33: every lesson option getChatCompletion returns is pre-validated: its
\* actions are exactly the commands of the raw option's actions that pass
\* the validator, in their original order, so that a batch started from a
\* lesson option holds validated commands only.
C33_LessonOptionsArePreValidated ==
    /\ \A k \in 1..Len(lessonOptions.options) :
          /\ lessonOptions.returned
          /\ lessonOptions.options[k].actions = ValidOfOption
    /\ \A b \in BatchIds :
          (batches[b].origin = "lesson" /\ batches[b].status # "done") =>
              batches[b].actions = ValidOfOption

\* an option of three raw commands, the middle one invalid, clicked and run
C33_Witness ==
    /\ rawOption.t = "array"
    /\ Len(rawOption.a) = 3
    /\ ~ChartActionSchemaAccepts(rawOption.a[2])
    /\ Len(lessonOptions.options) = 1
    /\ Len(lessonOptions.options[1].actions) = 2
    /\ batches[2].origin = "lesson"
    /\ batches[2].status = "running"
    /\ batches[2].pc = 2

(***************************************************************************)
(* C34..C36: overlapping candle reloads.                                   *)
(***************************************************************************)

\* C34: isLoading mirrors the reloads in flight: in every reachable state
\* isLoading is true if at least one candle reload is in flight and false
\* if none is.
C34_IsLoadingMirrorsReloads == state.isLoading <=> (reloads # <<>>)

\* C35: when two candle reloads overlap, the candles left once both have
\* resolved successfully are those of the reload requested last, in
\* whichever order the two responses arrive.
C35_LastRequestedReloadWins ==
    (active = 0 /\ Len(reloads) = 2) =>
        \A first \in 1..2 :
            LET one == loadCandlesResolved(M, first, TRUE)
                both == loadCandlesResolved(one, 1, TRUE)
            IN both.state.candles = CandlesOf(reloads[2].symbol, reloads[2].timeframe)

\* C36: each SET_SYMBOL, SET_TIMEFRAME or LOAD_CANDLES command causes exactly
\* one candle fetch request, from a batch or from the chart panel: with the
\* chart panel mounted no second reload starts for the same change.
C36_OneFetchPerLoadingCommand ==
    [][ /\ \A b \in BatchIds :
              (Executes(b) /\ Suspends(Executed(b))) =>
                  Len(reloads') = Len(reloads) + 1
        /\ (nPanel' = nPanel + 1 /\ family = "load") =>
                  Len(reloads') = Len(reloads) + 1 ]_vars

(***************************************************************************)
(* C37, C38: the frame of the synchronous commands.                        *)
(***************************************************************************)

\* the state fields a synchronous command may change
SpecOwnFields(type) ==
    CASE type \in {"ADD_INDICATOR", "UPDATE_INDICATOR_PARAMS", "CLEAR_INDICATORS",
                   "REMOVE_INDICATOR"} -> {"indicators"}
      [] type \in {"HIGHLIGHT_POINTS", "HIGHLIGHT_REGION"} -> {"highlights"}
      [] type = "ADD_ANNOTATION" -> {"annotations"}
      [] type = "FOCUS_RANGE" -> {"visibleFrom", "visibleTo"}
      [] OTHER -> DOMAIN initialState

\* the fields whose value this step changes
ChangedFields == { f \in DOMAIN state : state'[f] # state[f] }

\* C37: each synchronous command changes only the state fields of its own
\* row: ADD_INDICATOR, UPDATE_INDICATOR_PARAMS and CLEAR_INDICATORS only
\* indicators, HIGHLIGHT_POINTS and HIGHLIGHT_REGION only highlights,
\* ADD_ANNOTATION only annotations, FOCUS_RANGE only visibleFrom and
\* visibleTo; none changes symbol, timeframe, candles or isLoading.
C37_SynchronousCommandsKeepToTheirFields ==
    [][ /\ \A b \in BatchIds :
              (Executes(b) /\ ~Suspends(Executed(b))
                  /\ Executed(b).type # "CLEAR_HIGHLIGHTS") =>
                  /\ ChangedFields \subseteq SpecOwnFields(Executed(b).type)
                  /\ ChangedFields \cap {"symbol", "timeframe", "candles", "isLoading"} = {}
        /\ (nPanel' = nPanel + 1 /\ family = "indicators") =>
              ChangedFields \subseteq {"indicators"} ]_vars

\* a batch has moved the visible range and added an annotation, nothing else
C37_Witness ==
    \E b \in BatchIds :
        /\ batches[b].actions = << FocusRange, AddAnnotation >>
        /\ batches[b].pc = 2
        /\ state = [initialState EXCEPT !.visibleFrom = 100, !.visibleTo = 200,
                                        !.annotations = << AddAnnotation.annotation >>,
                                        !.candles = state.candles]

\* s is t or the beginning of t
IsPrefix(s, t) == Len(s) <= Len(t) /\ SubSeq(t, 1, Len(s)) = s

\* this step executes CLEAR_HIGHLIGHTS, from a batch or from the chart panel
ClearsHighlights ==
    \/ \E b \in BatchIds : Executes(b) /\ Executed(b).type = "CLEAR_HIGHLIGHTS"
    \/ nPanel' = nPanel + 1 /\ family = "overlays"

\* C38: highlights and annotations are append-only between clears:
\* HIGHLIGHT_POINTS, HIGHLIGHT_REGION and ADD_ANNOTATION keep the existing
\* entries as a prefix and add the new ones at the end in the order given,
\* and no step other than a CLEAR_HIGHLIGHTS removes, reorders or modifies an
\* existing highlight or annotation.
C38_OverlaysAppendOnly ==
    [][ /\ ~ClearsHighlights =>
              /\ IsPrefix(state.highlights, state'.highlights)
              /\ IsPrefix(state.annotations, state'.annotations)
        /\ \A b \in BatchIds :
              Executes(b) =>
                  LET a == Executed(b)
                      added == SubSeq(state'.highlights, Len(state.highlights) + 1,
                                      Len(state'.highlights))
                  IN /\ a.type = "HIGHLIGHT_POINTS" => added = a.points
                     /\ a.type = "HIGHLIGHT_REGION" =>
                           /\ Len(added) = 2
                           /\ added[1].time = a.region.fromTime
                           /\ added[2].time = a.region.toTime
                     /\ a.type = "ADD_ANNOTATION" =>
                           state'.annotations = Append(state.annotations, a.annotation) ]_vars

\* points highlighted, then a region: four highlights in the order given
C38_Witness ==
    \E b \in BatchIds :
        /\ batches[b].actions = << HighlightPoints, HighlightRegionLabel >>
        /\ batches[b].pc = 2
        /\ Len(state.highlights) = 4
        /\ SubSeq(state.highlights, 1, 2) = HighlightPoints.points
        /\ state.highlights[3].time = 100
        /\ state.highlights[4].time = 200

(***************************************************************************)
(* C39: the candles route.                                                 *)
(***************************************************************************)

\* C39: the route tries the Binance endpoints in their listed order, moves
\* to the next one after a non-OK response or an exception, answers with
\* the candles of the first endpoint that succeeds without contacting any
\* later one, and answers with status 500 only when all four have failed.
C39_RouteFallsBackInOrder ==
    LET n == Len(route.contacted)
        Failed(i) == route.contacted[i].outcome \in {"notOk", "exception"}
    IN /\ \A i \in 1..n : route.contacted[i].api = BINANCE_APIS[i]
       /\ \A i \in 1..(n - 1) : Failed(i)
       /\ route.answer = NoAnswer => (\A i \in 1..n : Failed(i)) /\ n < 4
       /\ route.answer.status = 200 =>
             /\ n >= 1
             /\ route.contacted[n].outcome = "ok"
             /\ route.answer.from = BINANCE_APIS[n]
             /\ route.answer.candles = CandlesOf(route.symbol, route.timeframe)
       /\ route.answer.status = 500 => n = 4 /\ \A i \in 1..4 : Failed(i)
       /\ (n = 4 /\ \A i \in 1..4 : Failed(i)) => route.answer.status = 500

\* two endpoints fail, one by status and one by exception, the third answers
C39_Witness ==
    /\ Len(route.contacted) = 3
    /\ route.contacted[1].outcome = "notOk"
    /\ route.contacted[2].outcome = "exception"
    /\ route.contacted[3].outcome = "ok"
    /\ route.answer.status = 200
    /\ route.answer.from = "https://api2.binance.com/api/v3"

=============================================================================
